---------------------------- MODULE Spec2Model ----------------------------
(***************************************************************************)
(* A model of the ai-ebash terminal client (src/src/aiebash):              *)
(*   - CommandExecutor._decode_output_line     (script_executor.py)        *)
(*   - run_code_block and the two executors    (script_executor.py)        *)
(*   - QueryExecutor's dialog handlers         (__main__.py)               *)
(*   - OpenRouterClient.ask / ask_stream       (llm_client.py)             *)
(*   - is_retriable_error                      (error_messages.py)         *)
(*   - WindowsCommandExecutor._preprocess_windows_code (script_executor.py)*)
(*   - ConfigManager.set and _save_config      (config_manager.py)         *)
(*                                                                         *)
(* Text is a sequence of code points (decoded process output) or a         *)
(* sequence of tokens (model replies); a byte string is a sequence of      *)
(* integers in 0..255.                                                     *)
(***************************************************************************)
EXTENDS Integers, Sequences, FiniteSets, TLC

(***************************************************************************)
(* Bounds of the model.                                                    *)
(***************************************************************************)
MaxLineLen == 3
MaxCands == 2
MaxBlocks == 2
MaxChunks == 3
MaxTurns == 2
MaxCalls == 2
PipeCap == 1
MaxPieces == 3

(***************************************************************************)
(* Part 1.  _decode_output_line, a pure function.                          *)
(***************************************************************************)

\* The bytes the inputs are drawn from: space, 'A', 0x98 (undefined in
\* cp1251, a stray continuation byte in UTF-8), 0xA9 (a continuation byte),
\* 0xC3 (the lead byte of a two-byte UTF-8 sequence).
ByteVals == {32, 65, 152, 169, 195}

\* The names a candidate list is drawn from: the five names the executors
\* use (UNIX_ENCODINGS, WINDOWS_ENCODINGS) and one name that is no codec.
EncodingNames == {"utf-8", "iso-8859-1", "ascii", "cp866", "cp1251", "no-such-codec"}

KnownEncodings == {"utf-8", "iso-8859-1", "ascii", "cp866", "cp1251"}

UNIX_ENCODINGS == <<"utf-8", "iso-8859-1", "ascii">>

WINDOWS_ENCODINGS == <<"cp866", "cp1251", "utf-8", "ascii">>

SeqsUpTo(S, n) == UNION {[1..k -> S] : k \in 0..n}

\* A decoding result: the text, or the exception the decode raised.
Ok(text) == [kind |-> "ok", val |-> text]

Raised(exc) == [kind |-> exc, val |-> <<>>]

PrependOk(c, r) == IF r.kind = "ok" THEN Ok(<<c>> \o r.val) ELSE r

\* bytes.decode('utf-8', errors='strict'), for the one- and two-byte forms
\* (the byte alphabet holds no lead byte of a longer form).
RECURSIVE Utf8Strict(_)
Utf8Strict(b) ==
    IF b = <<>> THEN Ok(<<>>)
    ELSE LET h == Head(b) IN
         IF h < 128 THEN PrependOk(h, Utf8Strict(Tail(b)))
         ELSE IF h \in 194..223 /\ Len(b) >= 2 /\ b[2] \in 128..191
              THEN PrependOk((h - 192) * 64 + (b[2] - 128), Utf8Strict(Tail(Tail(b))))
              ELSE Raised("UnicodeDecodeError")

\* bytes.decode('utf-8', errors='replace'): each invalid byte becomes U+FFFD.
RECURSIVE Utf8Replace(_)
Utf8Replace(b) ==
    IF b = <<>> THEN <<>>
    ELSE LET h == Head(b) IN
         IF h < 128 THEN <<h>> \o Utf8Replace(Tail(b))
         ELSE IF h \in 194..223 /\ Len(b) >= 2 /\ b[2] \in 128..191
              THEN <<(h - 192) * 64 + (b[2] - 128)>> \o Utf8Replace(Tail(Tail(b)))
              ELSE <<65533>> \o Utf8Replace(Tail(b))

\* One byte under a single-byte code page: the code point, or -1 where the
\* page leaves the byte undefined.  cp866 and cp1251 are given on the ranges
\* the byte alphabet touches.
CharmapByte(encoding, c) ==
    CASE encoding = "iso-8859-1" -> c
      [] encoding = "ascii" -> IF c < 128 THEN c ELSE -1
      [] encoding = "cp866" ->
            IF c < 128 THEN c
            ELSE IF c \in 128..175 THEN 1040 + (c - 128)
            ELSE IF c = 195 THEN 9500
            ELSE -1
      [] encoding = "cp1251" ->
            IF c < 128 THEN c
            ELSE IF c = 152 THEN -1
            ELSE IF c = 169 THEN 169
            ELSE IF c \in 192..255 THEN 1040 + (c - 192)
            ELSE -1

RECURSIVE CharmapStrict(_, _)
CharmapStrict(encoding, b) ==
    IF b = <<>> THEN Ok(<<>>)
    ELSE LET c == CharmapByte(encoding, Head(b)) IN
         IF c = -1 THEN Raised("UnicodeDecodeError")
         ELSE PrependOk(c, CharmapStrict(encoding, Tail(b)))

\* line_bytes.decode(encoding, errors='strict').  CPython returns '' for an
\* empty byte string before it looks the codec up; for a non-empty one an
\* unknown name raises LookupError, which is not a UnicodeDecodeError.
StrictDecode(b, encoding) ==
    IF b = <<>> THEN Ok(<<>>)
    ELSE IF encoding \notin KnownEncodings THEN Raised("LookupError")
    ELSE IF encoding = "utf-8" THEN Utf8Strict(b)
    ELSE CharmapStrict(encoding, b)

\* str.isspace() on one code point (the whitespace code points below U+0300).
IsSpace(c) == c \in {9, 10, 11, 12, 13, 28, 29, 30, 31, 32, 133, 160}

\* str.strip()
RECURSIVE LStrip(_)
LStrip(s) == IF s # <<>> /\ IsSpace(Head(s)) THEN LStrip(Tail(s)) ELSE s

RECURSIVE RStrip(_)
RStrip(s) ==
    IF s # <<>> /\ IsSpace(s[Len(s)]) THEN RStrip(SubSeq(s, 1, Len(s) - 1)) ELSE s

Strip(s) == RStrip(LStrip(s))

\* The except clause of the candidate loop: which exceptions of the strict
\* decode make the loop go on to the next candidate.
CaughtInLoop(exc) == exc = "UnicodeDecodeError"

\* The fallback after the loop: UTF-8 with replacement (it cannot raise, so
\* the latin1 branch behind it is never taken).
DecodeFallback(b) == Ok(Strip(Utf8Replace(b)))

\* The candidate loop from position i on.
RECURSIVE DecodeFrom(_, _, _)
DecodeFrom(b, encodings, i) ==
    IF i > Len(encodings) THEN DecodeFallback(b)
    ELSE LET r == StrictDecode(b, encodings[i]) IN
         IF r.kind = "ok" THEN Ok(Strip(r.val))
         ELSE IF CaughtInLoop(r.kind) THEN DecodeFrom(b, encodings, i + 1)
         ELSE r

_decode_output_line(line_bytes, encodings) == DecodeFrom(line_bytes, encodings, 1)

(***************************************************************************)
(* The state.                                                              *)
(***************************************************************************)
VARIABLES
    \* -- one call of _decode_output_line --
    line_bytes,     \* the argument line_bytes
    encodings,      \* the argument encodings
    decoded,        \* what the call produced: Ok(text) or Raised(exc)
    dpc,            \* "args": arguments chosen; "done": the call has ended
    \* -- one request to run a code block --
    system,         \* platform.system().lower(): "windows" or "linux"
    code_blocks,    \* the block list of the request (last_code_blocks)
    entry,          \* "direct": run_code_block called; "dialog": digits typed
    req_idx,        \* the index requested
    xpc,            \* where the request stands
    console,        \* what console.print has written during the request
    launches,       \* child processes launched (subprocess.Popen returned)
    launched_code,  \* the code text handed to the last launch, 0 if none
    results,        \* execution results (CompletedProcess) constructed
    child,          \* the child process: [state, code, found, out, err]
    result,         \* the CompletedProcess of the request: [made, returncode, stdout, stderr]
    pending_exc,    \* the exception propagating, "none" if none
    temp_path,      \* what _create_temporary_batch_file returned, "none" before
    temp_file,      \* the batch file on disk: "absent", "exists", "deleted"
    unlinks,        \* calls of os.unlink(temp_path)
    cleanup_warned, \* the warning "Failed to delete temporary file" was logged
    wexec,          \* WindowsCommandExecutor.execute: "none", "running", "returned", "raised"
    xout,           \* how the request ended for its caller, "none" while running
    stdout_lines,   \* execute's list stdout_lines
    stderr_lines,   \* execute's list stderr_lines
    raised,         \* the exception raised inside the try of run_code_block, "none" if none
    out_pipe,       \* the child's stdout pipe: lines written and not yet read
    err_pipe,       \* the child's stderr pipe: lines written and not yet read
    terminal,       \* what print() has written during the request, in order
    \* -- the dialog and the client (OpenRouterClient) --
    stream_output_mode,   \* config "global"/"stream_output_mode"
    messages,             \* self.messages, the transcript
    educational_content,  \* the dialog's list of hint messages
    last_code_blocks,     \* the dialog's remembered code blocks
    tpc,                  \* where the foreground thread stands
    user_input,           \* the question of the turn under way
    stop_spinner,         \* the threading.Event of the turn, set or not
    spinner,              \* the indicator thread: "none", "running" (at its
                          \* poll of the event), "sleeping", "exited"
    received,             \* the fragments the stream has delivered this turn
    reply_parts,          \* ask_stream's list reply_parts
    first_chunk,          \* ask_stream's first_chunk, <<>> for None
    reply,                \* the local reply of ask / ask_stream
    live,                 \* the texts rendered in the live region this turn
    printed,              \* what the foreground printed on the console this turn
    ret,                  \* how ask / ask_stream ended: [kind, val]
    sent,                 \* the transcript as _add_messages_to_context left it
    turns,                \* questions asked so far
    requests,             \* model requests issued this turn
    leaked,               \* indicator threads of earlier turns that are still alive
    \* -- is_retriable_error and the lazily imported openai exceptions --
    openai_importable,    \* the environment: "from openai import ..." succeeds
    exceptions_loaded,    \* _LazyOpenAIImports._exceptions is not None
    import_attempted,     \* _LazyOpenAIImports._import_attempted
    error,                \* the class of the argument of is_retriable_error
    rcheck,               \* the test of is_retriable_error under way, 0 if none
    retriable,            \* what the call returned: "True", "False", "none" before
    rpc,                  \* "idle", "checking", "done"
    rcalls,               \* calls of is_retriable_error so far
    \* -- one call of WindowsCommandExecutor._preprocess_windows_code --
    code_block,           \* the argument code_block
    preprocessed_code,    \* what the call returned
    ppc,                  \* "args": argument chosen; "done": the call has returned
    \* -- a ConfigManager and one call of its set --
    config,               \* self._config, a dict of sections
    config_file,          \* config.yaml on disk: a configuration, or "truncated"
    backup_file,          \* config.yaml.backup on disk, "absent" if none
    set_args,             \* the arguments of the call: [section, key, value]
    config_before,        \* self._config when the call was made
    cpc,                  \* where the call of set stands
    set_out               \* how the call ended: "none", "returned", or the exception

decVars == <<line_bytes, encodings, decoded, dpc>>

execVars == <<system, code_blocks, entry, req_idx, xpc, console, launches,
              launched_code, results, child, result, pending_exc, temp_path,
              temp_file, unlinks, cleanup_warned, wexec, xout, stdout_lines,
              stderr_lines, raised, out_pipe, err_pipe, terminal>>

turnVars == <<stream_output_mode, messages, educational_content, last_code_blocks,
              tpc, user_input, stop_spinner, spinner, received, reply_parts,
              first_chunk, reply, live, printed, ret, sent, turns, requests,
              leaked>>

retryVars == <<openai_importable, exceptions_loaded, import_attempted, error,
               rcheck, retriable, rpc, rcalls>>

preVars == <<code_block, preprocessed_code, ppc>>

cfgVars == <<config, config_file, backup_file, set_args, config_before, cpc, set_out>>

vars == <<decVars, execVars, turnVars, retryVars, preVars, cfgVars>>

(***************************************************************************)
(* Part 1, continued: the specification of the decoder.                    *)
(***************************************************************************)
NoResult == [kind |-> "none", val |-> <<>>]

DecodeIdle ==
    /\ line_bytes = <<>>
    /\ encodings = <<>>
    /\ decoded = NoResult
    /\ dpc = "off"

\* One call of _decode_output_line on the chosen arguments.
DecodeCall ==
    /\ dpc = "args"
    /\ decoded' = _decode_output_line(line_bytes, encodings)
    /\ dpc' = "done"
    /\ UNCHANGED <<line_bytes, encodings>>
    /\ UNCHANGED <<execVars, turnVars, retryVars, preVars, cfgVars>>

(***************************************************************************)
(* Part 2.  run_code_block, the executors, and the dialog's numeric input. *)
(***************************************************************************)

\* The block list of n blocks; block i's text is written i.
Blocks(n) == [i \in 1..n |-> i]

\* The indices a request is drawn from (5 against 2 blocks among them).
IdxRange == -1..(MaxBlocks + 3)

\* What the child's exit status is drawn from.
ExitCodes == {0, 1, 127}

\* isinstance(e, Exception): KeyboardInterrupt is a BaseException only.
IsException_OSErrorOnly(e) == e = "OSError"

IsException(e) == e \in {"OSError", "IndexError", "UnicodeEncodeError"}

\* The child process: what it will write to each pipe (out, err), and how
\* many of those lines it has written so far (wout, werr).
NoChild == [state |-> "none", code |-> 0, found |-> TRUE, out |-> <<>>, err |-> <<>>,
            wout |-> 0, werr |-> 0]

NoCompleted == [made |-> FALSE, returncode |-> 0, stdout |-> <<>>, stderr |-> <<>>]

\* console.print records: the text by its template, with what fills it.
Msg(template, idx, lo, hi, code) ==
    [msg |-> template, idx |-> idx, lo |-> lo, hi |-> hi, code |-> code, text |-> <<>>]

\* The lines a child writes, as bytes with the newline that ends them:
\* "hello", a blank line, "\u00e9" in UTF-8, "warn", "Error: x", "not found".
HelloLine == <<104, 101, 108, 108, 111, 10>>

BlankLine == <<32, 10>>

AccentLine == <<195, 169, 10>>

WarnLine == <<119, 97, 114, 110, 10>>

ErrorTagLine == <<69, 114, 114, 111, 114, 58, 32, 120, 10>>

NotFoundLine == <<110, 111, 116, 32, 102, 111, 117, 110, 100, 10>>

\* More lines than a pipe holds.
FloodLines == [k \in 1..(PipeCap + 1) |-> WarnLine]

\* What a child can write to its stdout and to its stderr.  A shell that
\* does not find the command writes its complaint to stderr only.
ChildStdout(found) == IF found THEN {<<>>, <<HelloLine, BlankLine, AccentLine>>} ELSE {<<>>}

ChildStderr(found) ==
    IF found THEN {<<>>, <<WarnLine>>, <<ErrorTagLine>>, FloodLines} ELSE {<<NotFoundLine>>}

\* UNIX_ENCODINGS / WINDOWS_ENCODINGS, by the executor the factory creates.
ExecutorEncodings_WindowsAlways(sys) == WINDOWS_ENCODINGS

ExecutorEncodings(sys) == IF sys = "windows" THEN WINDOWS_ENCODINGS ELSE UNIX_ENCODINGS

\* decoded_line = self._decode_output_line(line, encodings), line by line.
DecodedLines(lines, encs) ==
    [k \in 1..Len(lines) |-> _decode_output_line(lines[k], encs).val]

\* The exit status of a child: not zero when the command was not found.
ChildExitCodes(found) == IF found THEN ExitCodes ELSE ExitCodes \ {0}

\* _process_output_stream: the lines kept in output_lines, those that do
\* not decode to the empty string.
NonEmptyLine(l) == l # <<>>

KeptLines_Inverted(lines) == SelectSeq(lines, LAMBDA l : ~NonEmptyLine(l))

KeptLines(lines) == SelectSeq(lines, NonEmptyLine)

\* returncode=process.returncode
ReturnCode_Zero(ch) == 0

ReturnCode(ch) == ch.code

\* "Error:" as code points, and Python's "pat in text" on strings.
ErrorTag == <<69, 114, 114, 111, 114, 58>>

Contains(text, pat) ==
    \E i \in 1..(Len(text) - Len(pat) + 1) : SubSeq(text, i, i + Len(pat) - 1) = pat

\* "Error:" in line
HasErrorTag(line) == Contains(line, ErrorTag)

\* What print() writes: a line of stdout as it is, a line of stderr inside
\* the template "Error: {line}" on sys.stderr.
PrintedLine(decoded_line, is_stderr) ==
    [stream |-> IF is_stderr THEN "stderr" ELSE "stdout",
     tagged |-> is_stderr, line |-> decoded_line]

\* A write into a full pipe blocks.
PipeHasRoom(pipe) == Len(pipe) < PipeCap

\* A read of a pipe returns end-of-file once the pipe is empty and the
\* child has closed its end (it has exited).
AtEOF(pipe, ch) == pipe = <<>> /\ ch.state = "exited"

\* _has_additional_errors: stderr is not empty and no line of it holds "Error:".
_has_additional_errors(res) ==
    /\ res.stderr # <<>>
    /\ ~\E k \in 1..Len(res.stderr) : HasErrorTag(res.stderr[k])

\* 1 <= idx <= total_blocks
_is_valid_block_index_NoLowerBound(idx, total_blocks) == idx <= total_blocks

_is_valid_block_index(idx, total_blocks) == 1 <= idx /\ idx <= total_blocks

\* "[yellow]Block #{idx} does not exist. Available blocks: 1 to {total}.[/yellow]"
InvalidIndexWarning_OffByOne(idx, total_blocks) ==
    Msg("Block does not exist. Available blocks: lo to hi", idx, 0, total_blocks, 0)

InvalidIndexWarning(idx, total_blocks) ==
    Msg("Block does not exist. Available blocks: lo to hi", idx, 1, total_blocks, 0)

\* f"[dim]Code block #{block_index} not found.[/dim]"
NotFoundMessage(block_index) == Msg("Code block not found", block_index, 0, 0, 0)

\* Python's code_blocks[idx - 1]: a negative position counts from the end,
\* a position outside the list raises IndexError (0 here).
BlockAt(blocks, idx) ==
    LET n == Len(blocks)
        k == idx - 1
    IN  IF 0 <= k /\ k < n THEN blocks[k + 1]
        ELSE IF -n <= k /\ k < 0 THEN blocks[n + k + 1]
        ELSE 0

\* Where WindowsCommandExecutor.execute goes when _execute_batch_file ends,
\* normally or with exception exc: the finally clause, always.
WinExecuteExit_NoFinally(exc) == IF exc = "none" THEN "win_cleanup" ELSE "propagate"

WinExecuteExit(exc) == "win_cleanup"

\* Where control goes when a step of the executor raises exc.
RaiseInExecute(exc) ==
    IF system = "windows" /\ temp_path # "none" THEN WinExecuteExit(exc) ELSE "propagate"

ExecIdle ==
    /\ entry = "none"
    /\ req_idx = 0
    /\ xpc = "idle"
    /\ console = <<>>
    /\ launches = 0
    /\ launched_code = 0
    /\ results = 0
    /\ child = NoChild
    /\ result = NoCompleted
    /\ pending_exc = "none"
    /\ temp_path = "none"
    /\ temp_file = "absent"
    /\ unlinks = 0
    /\ cleanup_warned = FALSE
    /\ wexec = "none"
    /\ xout = "none"
    /\ stdout_lines = <<>>
    /\ stderr_lines = <<>>
    /\ raised = "none"
    /\ out_pipe = <<>>
    /\ err_pipe = <<>>
    /\ terminal = <<>>

ExecOff ==
    /\ system = "linux"
    /\ code_blocks = <<>>
    /\ ExecIdle

execFrame == UNCHANGED <<system, code_blocks>> /\ UNCHANGED <<decVars, turnVars, retryVars, preVars, cfgVars>>

\* The digits the dialog reads: int(user_prompt) of an all-digits input.
DialogIdxRange == 0..(MaxBlocks + 3)

\* _dialog_loop, an input of digits only (lines 462-464), into
\* QueryExecutor._execute_code_block up to its range check (lines 412-419).
DialogNumericInput ==
    /\ xpc = "idle"
    /\ \E block_index \in DialogIdxRange :
          /\ entry' = "dialog"
          /\ req_idx' = block_index
          /\ IF 1 <= block_index /\ block_index <= Len(code_blocks)
             THEN /\ xpc' = "run_code_block"
                  /\ console' = console
             ELSE /\ xpc' = "dialog_return"
                  /\ console' = Append(console, NotFoundMessage(block_index))
    /\ UNCHANGED <<launches, launched_code, results, child, result, pending_exc,
                   temp_path, temp_file, unlinks, cleanup_warned, wexec, xout>>
    /\ UNCHANGED <<stdout_lines, stderr_lines, raised>>
    /\ UNCHANGED <<out_pipe, err_pipe, terminal>>
    /\ execFrame

\* run_code_block(console, code_blocks, idx) called with any integer.
DirectRunCodeBlock ==
    /\ xpc = "idle"
    /\ \E idx \in IdxRange :
          /\ entry' = "direct"
          /\ req_idx' = idx
    /\ xpc' = "run_code_block"
    /\ UNCHANGED <<console, launches, launched_code, results, child, result,
                   pending_exc, temp_path, temp_file, unlinks, cleanup_warned,
                   wexec, xout>>
    /\ UNCHANGED <<stdout_lines, stderr_lines, raised>>
    /\ UNCHANGED <<out_pipe, err_pipe, terminal>>
    /\ execFrame

\* run_code_block up to the try statement: the index check, the block
\* lookup and the header.
RunCodeBlock ==
    /\ xpc = "run_code_block"
    /\ IF ~_is_valid_block_index(req_idx, Len(code_blocks))
       THEN /\ console' = Append(console, InvalidIndexWarning(req_idx, Len(code_blocks)))
            /\ xpc' = "rcb_exit"
            /\ pending_exc' = pending_exc
       ELSE IF BlockAt(code_blocks, req_idx) = 0
       THEN /\ pending_exc' = "IndexError"
            /\ xpc' = "rcb_exit"
            /\ console' = console
       ELSE /\ console' = console \o
                  << Msg("Running block", req_idx, 0, 0, 0),
                     Msg("code", BlockAt(code_blocks, req_idx), 0, 0, 0) >>
            /\ xpc' = "execute_code_block"
            /\ pending_exc' = pending_exc
    /\ UNCHANGED <<entry, req_idx, launches, launched_code, results, child, result,
                   temp_path, temp_file, unlinks, cleanup_warned, wexec, xout>>
    /\ UNCHANGED <<stdout_lines, stderr_lines, raised>>
    /\ UNCHANGED <<out_pipe, err_pipe, terminal>>
    /\ execFrame

\* _execute_code_block up to executor.execute(code): the executor of the
\* host, the "Result" line, and the entry into execute.
ExecuteCodeBlock ==
    /\ xpc = "execute_code_block"
    /\ console' = Append(console, Msg("Result", 0, 0, 0, 0))
    /\ IF system = "windows"
       THEN xpc' = "win_create_temp" /\ wexec' = "running"
       ELSE xpc' = "popen" /\ wexec' = wexec
    /\ UNCHANGED <<entry, req_idx, launches, launched_code, results, child, result,
                   pending_exc, temp_path, temp_file, unlinks, cleanup_warned, xout>>
    /\ UNCHANGED <<stdout_lines, stderr_lines, raised>>
    /\ UNCHANGED <<out_pipe, err_pipe, terminal>>
    /\ execFrame

\* WindowsCommandExecutor._create_temporary_batch_file, called before the try
\* statement of execute: mkstemp and the write succeed, or mkstemp raises
\* (no file), or the write raises (the file stays behind).
WinCreateTemp ==
    /\ xpc = "win_create_temp"
    /\ \/ /\ temp_path' = "tmp.bat"
          /\ temp_file' = "exists"
          /\ xpc' = "popen"
          /\ UNCHANGED <<pending_exc, raised>>
       \/ /\ temp_path' = temp_path
          /\ temp_file' = temp_file
          /\ xpc' = "propagate"
          /\ pending_exc' = "OSError"
          /\ raised' = "OSError"
       \/ /\ temp_path' = temp_path
          /\ temp_file' = "exists"
          /\ xpc' = "propagate"
          /\ pending_exc' = "OSError"
          /\ raised' = "OSError"
    /\ UNCHANGED <<entry, req_idx, console, launches, launched_code, results, child,
                   result, unlinks, cleanup_warned, wexec, xout>>
    /\ UNCHANGED <<stdout_lines, stderr_lines>>
    /\ UNCHANGED <<out_pipe, err_pipe, terminal>>
    /\ execFrame

\* subprocess.Popen(...): the child is launched, or Popen raises OSError.
Popen ==
    /\ xpc = "popen"
    /\ \/ /\ launches' = launches + 1
          /\ launched_code' = BlockAt(code_blocks, req_idx)
          /\ \E found \in BOOLEAN :
                \E out \in ChildStdout(found), err \in ChildStderr(found) :
                   child' = [state |-> "running", code |-> 0, found |-> found,
                             out |-> out, err |-> err, wout |-> 0, werr |-> 0]
          /\ xpc' = "read_stdout"
          /\ UNCHANGED <<pending_exc, raised>>
       \/ /\ pending_exc' = "OSError"
          /\ raised' = "OSError"
          /\ xpc' = RaiseInExecute("OSError")
          /\ UNCHANGED <<launches, launched_code, child>>
    /\ UNCHANGED <<entry, req_idx, console, results, result, temp_path, temp_file,
                   unlinks, cleanup_warned, wexec, xout>>
    /\ UNCHANGED <<stdout_lines, stderr_lines>>
    /\ UNCHANGED <<out_pipe, err_pipe, terminal>>
    /\ execFrame

\* The child writes its next line to stdout or to stderr, in the order it
\* chooses; the write blocks while the pipe is full.
ChildWrite ==
    /\ child.state = "running"
    /\ \/ /\ child.wout < Len(child.out)
          /\ PipeHasRoom(out_pipe)
          /\ out_pipe' = Append(out_pipe, child.out[child.wout + 1])
          /\ child' = [child EXCEPT !.wout = @ + 1]
          /\ err_pipe' = err_pipe
       \/ /\ child.werr < Len(child.err)
          /\ PipeHasRoom(err_pipe)
          /\ err_pipe' = Append(err_pipe, child.err[child.werr + 1])
          /\ child' = [child EXCEPT !.werr = @ + 1]
          /\ out_pipe' = out_pipe
    /\ UNCHANGED <<entry, req_idx, xpc, console, launches, launched_code, results,
                   result, pending_exc, temp_path, temp_file, unlinks, cleanup_warned,
                   wexec, xout, stdout_lines, stderr_lines, raised, terminal>>
    /\ execFrame

\* The child has written all it had to write and exits, closing its ends
\* of both pipes.
ChildExit ==
    /\ child.state = "running"
    /\ child.wout = Len(child.out)
    /\ child.werr = Len(child.err)
    /\ \E c \in ChildExitCodes(child.found) :
          child' = [child EXCEPT !.state = "exited", !.code = c]
    /\ UNCHANGED <<entry, req_idx, xpc, console, launches, launched_code, results,
                   result, pending_exc, temp_path, temp_file, unlinks, cleanup_warned,
                   wexec, xout, stdout_lines, stderr_lines, raised>>
    /\ UNCHANGED <<out_pipe, err_pipe, terminal>>
    /\ execFrame

\* _process_output_stream(process.stdout, ...), one pass of its loop: the
\* next line is read, decoded, kept if not empty and printed (print raises
\* UnicodeEncodeError on a line the terminal's encoding cannot take); or
\* the stream is at its end and the loop is left; or a keyboard interrupt
\* arrives during the read.  With the pipe empty and the child alive the
\* read blocks.
ReadStdout ==
    /\ xpc = "read_stdout"
    /\ \/ /\ out_pipe # <<>>
          /\ out_pipe' = Tail(out_pipe)
          /\ LET kept == KeptLines(DecodedLines(<<Head(out_pipe)>>, ExecutorEncodings(system)))
             IN  /\ stdout_lines' = stdout_lines \o kept
                 /\ \/ /\ terminal' = terminal \o [k \in 1..Len(kept) |-> PrintedLine(kept[k], FALSE)]
                       /\ xpc' = xpc
                       /\ UNCHANGED <<pending_exc, raised>>
                    \/ /\ kept # <<>>
                       /\ terminal' = terminal
                       /\ pending_exc' = "UnicodeEncodeError"
                       /\ raised' = "UnicodeEncodeError"
                       /\ xpc' = RaiseInExecute("UnicodeEncodeError")
       \/ /\ AtEOF(out_pipe, child)
          /\ xpc' = IF system = "windows" THEN "read_stderr" ELSE "wait"
          /\ UNCHANGED <<pending_exc, raised, stdout_lines, out_pipe, terminal>>
       \/ /\ pending_exc' = "KeyboardInterrupt"
          /\ raised' = "KeyboardInterrupt"
          /\ xpc' = RaiseInExecute("KeyboardInterrupt")
          /\ UNCHANGED <<stdout_lines, out_pipe, terminal>>
    /\ UNCHANGED <<entry, req_idx, console, launches, launched_code, results, child,
                   result, temp_path, temp_file, unlinks, cleanup_warned, wexec, xout>>
    /\ UNCHANGED <<stderr_lines, err_pipe>>
    /\ execFrame

\* _process_output_stream(process.stderr, ..., is_stderr=True), one pass of
\* its loop: Windows only.  sys.stderr escapes what it cannot encode, so
\* this print does not raise.
ReadStderr ==
    /\ xpc = "read_stderr"
    /\ \/ /\ err_pipe # <<>>
          /\ err_pipe' = Tail(err_pipe)
          /\ LET kept == KeptLines(DecodedLines(<<Head(err_pipe)>>, ExecutorEncodings(system)))
             IN  /\ stderr_lines' = stderr_lines \o kept
                 /\ terminal' = terminal \o [k \in 1..Len(kept) |-> PrintedLine(kept[k], TRUE)]
          /\ xpc' = xpc
          /\ UNCHANGED <<pending_exc, raised>>
       \/ /\ AtEOF(err_pipe, child)
          /\ xpc' = "wait"
          /\ UNCHANGED <<pending_exc, raised, stderr_lines, err_pipe, terminal>>
       \/ /\ pending_exc' = "KeyboardInterrupt"
          /\ raised' = "KeyboardInterrupt"
          /\ xpc' = RaiseInExecute("KeyboardInterrupt")
          /\ UNCHANGED <<stderr_lines, err_pipe, terminal>>
    /\ UNCHANGED <<entry, req_idx, console, launches, launched_code, results, child,
                   result, temp_path, temp_file, unlinks, cleanup_warned, wexec, xout>>
    /\ UNCHANGED <<stdout_lines, out_pipe>>
    /\ execFrame

\* process.wait(): returns when the child has exited, or is interrupted.
Wait ==
    /\ xpc = "wait"
    /\ \/ /\ child.state = "exited"
          /\ xpc' = "make_result"
          /\ UNCHANGED <<pending_exc, raised>>
       \/ /\ pending_exc' = "KeyboardInterrupt"
          /\ raised' = "KeyboardInterrupt"
          /\ xpc' = RaiseInExecute("KeyboardInterrupt")
    /\ UNCHANGED <<entry, req_idx, console, launches, launched_code, results, result,
                   temp_path, temp_file, unlinks, cleanup_warned, wexec, xout, child>>
    /\ UNCHANGED <<stdout_lines, stderr_lines>>
    /\ UNCHANGED <<out_pipe, err_pipe, terminal>>
    /\ execFrame

\* subprocess.CompletedProcess(returncode=process.returncode, ...) and the
\* return of execute (Linux) or of _execute_batch_file (Windows).
MakeResult ==
    /\ xpc = "make_result"
    /\ results' = results + 1
    /\ result' = [made |-> TRUE, returncode |-> ReturnCode(child),
                  stdout |-> stdout_lines, stderr |-> stderr_lines]
    /\ xpc' = IF system = "windows" THEN WinExecuteExit("none") ELSE "display_result"
    /\ UNCHANGED <<entry, req_idx, console, launches, launched_code, child,
                   pending_exc, temp_path, temp_file, unlinks, cleanup_warned,
                   wexec, xout>>
    /\ UNCHANGED <<stdout_lines, stderr_lines, raised>>
    /\ UNCHANGED <<out_pipe, err_pipe, terminal>>
    /\ execFrame

\* _cleanup_temporary_file in the finally clause of execute: os.unlink
\* deletes the file, or raises and the failure is logged as a warning; then
\* execute returns the result or lets the pending exception go on.
WinCleanup ==
    /\ xpc = "win_cleanup"
    /\ unlinks' = unlinks + 1
    /\ \/ /\ temp_file' = "deleted"
          /\ cleanup_warned' = cleanup_warned
       \/ /\ temp_file' = temp_file
          /\ cleanup_warned' = TRUE
    /\ IF pending_exc = "none"
       THEN xpc' = "display_result" /\ wexec' = "returned"
       ELSE xpc' = "propagate" /\ wexec' = "raised"
    /\ UNCHANGED <<entry, req_idx, console, launches, launched_code, results, child,
                   result, pending_exc, temp_path, xout>>
    /\ UNCHANGED <<stdout_lines, stderr_lines, raised>>
    /\ UNCHANGED <<out_pipe, err_pipe, terminal>>
    /\ execFrame

\* An exception leaves executor.execute and reaches the except clause of
\* run_code_block: an Exception is reported by _handle_execution_error, a
\* KeyboardInterrupt passes through.
Propagate ==
    /\ xpc = "propagate"
    /\ wexec' = IF wexec = "running" THEN "raised" ELSE wexec
    /\ IF IsException(pending_exc)
       THEN /\ console' = Append(console, Msg("Script execution error", 0, 0, 0, 0))
            /\ pending_exc' = "none"
       ELSE /\ console' = console
            /\ pending_exc' = pending_exc
    /\ xpc' = "rcb_exit"
    /\ UNCHANGED <<entry, req_idx, launches, launched_code, results, child, result,
                   temp_path, temp_file, unlinks, cleanup_warned, xout>>
    /\ UNCHANGED <<stdout_lines, stderr_lines, raised>>
    /\ UNCHANGED <<out_pipe, err_pipe, terminal>>
    /\ execFrame

\* _display_execution_result: the exit code line.
DisplayResult ==
    /\ xpc = "display_result"
    /\ console' = Append(console, Msg("Exit code", req_idx, 0, 0, result.returncode)) \o
                  (IF _has_additional_errors(result)
                   THEN << [Msg("Error", 0, 0, 0, 0) EXCEPT !.text = result.stderr] >>
                   ELSE <<>>)
    /\ xpc' = "rcb_exit"
    /\ UNCHANGED <<entry, req_idx, launches, launched_code, results, child, result,
                   pending_exc, temp_path, temp_file, unlinks, cleanup_warned,
                   wexec, xout>>
    /\ UNCHANGED <<stdout_lines, stderr_lines, raised>>
    /\ UNCHANGED <<out_pipe, err_pipe, terminal>>
    /\ execFrame

\* run_code_block ends.  Called directly, its caller has the return or the
\* exception.  Called from QueryExecutor._execute_code_block, a return makes
\* that return True, an Exception is caught and reported there (lines
\* 420-423), a KeyboardInterrupt goes on to _dialog_loop, which breaks.
RunCodeBlockExit ==
    /\ xpc = "rcb_exit"
    /\ IF entry = "direct"
       THEN /\ xout' = IF pending_exc = "none" THEN "returned" ELSE pending_exc
            /\ xpc' = "finished"
            /\ UNCHANGED <<console, pending_exc>>
       ELSE IF pending_exc = "none"
       THEN /\ xpc' = "dialog_return"
            /\ UNCHANGED <<console, pending_exc, xout>>
       ELSE IF IsException(pending_exc)
       THEN /\ console' = Append(console, Msg("Error executing code block", 0, 0, 0, 0))
            /\ pending_exc' = "none"
            /\ xpc' = "dialog_return"
            /\ xout' = xout
       ELSE /\ xout' = pending_exc
            /\ xpc' = "finished"
            /\ UNCHANGED <<console, pending_exc>>
    /\ UNCHANGED <<entry, req_idx, launches, launched_code, results, child, result,
                   temp_path, temp_file, unlinks, cleanup_warned, wexec>>
    /\ UNCHANGED <<stdout_lines, stderr_lines, raised>>
    /\ UNCHANGED <<out_pipe, err_pipe, terminal>>
    /\ execFrame

\* _dialog_loop after _execute_code_block returned: the empty line, then
\* the next prompt (lines 465-466).
DialogReturn ==
    /\ xpc = "dialog_return"
    /\ console' = Append(console, Msg("", 0, 0, 0, 0))
    /\ xout' = "returned"
    /\ xpc' = "finished"
    /\ UNCHANGED <<entry, req_idx, launches, launched_code, results, child, result,
                   pending_exc, temp_path, temp_file, unlinks, cleanup_warned, wexec>>
    /\ UNCHANGED <<stdout_lines, stderr_lines, raised>>
    /\ UNCHANGED <<out_pipe, err_pipe, terminal>>
    /\ execFrame

\* The caller is ready for its next request (the dialog shows its prompt
\* again); an interrupt ended the dialog.
NextRequest ==
    /\ xpc = "finished"
    /\ xout = "returned"
    /\ entry' = "none"
    /\ req_idx' = 0
    /\ xpc' = "idle"
    /\ console' = <<>>
    /\ launches' = 0
    /\ launched_code' = 0
    /\ results' = 0
    /\ child' = NoChild
    /\ result' = NoCompleted
    /\ pending_exc' = "none"
    /\ temp_path' = "none"
    /\ temp_file' = "absent"
    /\ unlinks' = 0
    /\ cleanup_warned' = FALSE
    /\ wexec' = "none"
    /\ xout' = "none"
    /\ stdout_lines' = <<>>
    /\ stderr_lines' = <<>>
    /\ raised' = "none"
    /\ out_pipe' = <<>>
    /\ err_pipe' = <<>>
    /\ terminal' = <<>>
    /\ execFrame

ExecNext ==
    \/ DialogNumericInput
    \/ DirectRunCodeBlock
    \/ RunCodeBlock
    \/ ExecuteCodeBlock
    \/ WinCreateTemp
    \/ Popen
    \/ ChildWrite
    \/ ChildExit
    \/ ReadStdout
    \/ ReadStderr
    \/ Wait
    \/ MakeResult
    \/ WinCleanup
    \/ Propagate
    \/ DisplayResult
    \/ RunCodeBlockExit
    \/ DialogReturn
    \/ NextRequest

(***************************************************************************)
(* Part 3.  OpenRouterClient.ask / ask_stream, the indicator thread, and   *)
(* the dialog's handling of a question.                                    *)
(***************************************************************************)

Message(role, content) == [role |-> role, content |-> content]

\* The system message given at construction.
SystemMessage == Message("system", <<"sys">>)

\* AppConfig.educational_content: one message of role user.
HintMessages == << Message("user", <<"hint">>) >>

\* The questions the user types (not empty, not digits, not an exit word).
Questions == {<<"q">>}

\* What the k-th chunk of a stream can carry: no content (None or ''), or
\* a text of its own, written k.
Frags(k) == {<<>>, <<k>>}

\* "".join(reply_parts)
RECURSIVE Join(_)
Join(parts) == IF parts = <<>> THEN <<>> ELSE Head(parts) \o Join(Tail(parts))

\* The streams of at most MaxChunks chunks, and the texts a complete
\* (non-streamed) reply is drawn from: what such a stream adds up to.
Streams == UNION { {f \in [1..n -> SeqsUpTo(1..MaxChunks, 1)] : \A k \in 1..n : f[k] \in Frags(k)} :
                   n \in 0..MaxChunks }

Replies == {Join(f) : f \in Streams}

NoRet == [kind |-> "none", val |-> <<>>]

\* _add_messages_to_context: extend by the hints, then append the question.
AddMessagesToContext_UserFirst(msgs, educational, input) ==
    Append(msgs, Message("user", input)) \o educational

AddMessagesToContext(msgs, educational, input) ==
    Append(msgs \o educational, Message("user", input))

\* self.messages.append({"role": "assistant", "content": reply})
AppendAssistant_ReplaceLast(msgs, text) ==
    [msgs EXCEPT ![Len(msgs)] = Message("assistant", text)]

AppendAssistant_SkipEmpty(msgs, text) ==
    IF text = <<>> THEN msgs ELSE Append(msgs, Message("assistant", text))

AppendAssistant(msgs, text) == Append(msgs, Message("assistant", text))

\* spinner_thread.join() returns once the thread has terminated (so does
\* "if spinner_thread.is_alive(): spinner_thread.join()").
JoinReturns_NoWait(thread) == TRUE

JoinReturns(thread) == thread = "exited"

\* The text _process_streaming_response renders after a chunk with content
\* text: "".join(reply_parts), the whole reply so far.
LiveRenderable_ChunkOnly(parts, text) == text

LiveRenderable(parts, text) == Join(parts)

\* "if chunk.choices[0].delta.content:": the chunk carries a text.
HasContent_Any(f) == TRUE

HasContent(f) == f # <<>>

\* threading.Thread.is_alive() of the indicator thread.
IsAlive(thread) == thread \in {"running", "sleeping"}

\* The code-block extractor (formatter_text, an external collaborator):
\* every token of a reply text stands for one fenced block.
ExtractCodeBlocks(text) == text

Printed(kind, text) == [kind |-> kind, text |-> text]

\* self.console.print(connection_error(e)) in the except clause of
\* _process_user_input.
ConnectionErrorReport_Twice ==
    << Printed("connection_error", <<>>), Printed("connection_error", <<>>) >>

ConnectionErrorReport == << Printed("connection_error", <<>>) >>

turnFrame == UNCHANGED <<decVars, execVars, retryVars, preVars, cfgVars>>

TurnIdle ==
    /\ messages = <<SystemMessage>>
    /\ educational_content = HintMessages
    /\ last_code_blocks = <<>>
    /\ tpc = "prompt"
    /\ user_input = <<>>
    /\ stop_spinner = FALSE
    /\ spinner = "none"
    /\ received = <<>>
    /\ reply_parts = <<>>
    /\ first_chunk = <<>>
    /\ reply = <<>>
    /\ live = <<>>
    /\ printed = <<>>
    /\ ret = NoRet
    /\ sent = <<>>
    /\ turns = 0
    /\ requests = 0
    /\ leaked = 0

TurnOff ==
    /\ stream_output_mode = FALSE
    /\ TurnIdle

\* _dialog_loop: the user types a question; _process_user_input calls ask
\* or ask_stream with the dialog's educational_content.
DialogQuestion ==
    /\ tpc = "prompt"
    /\ xpc = "idle"
    /\ turns < MaxTurns
    /\ \E q \in Questions : user_input' = q
    /\ turns' = turns + 1
    /\ tpc' = "add"
    /\ received' = <<>>
    /\ reply_parts' = <<>>
    /\ first_chunk' = <<>>
    /\ reply' = <<>>
    /\ live' = <<>>
    /\ printed' = <<>>
    /\ ret' = NoRet
    /\ requests' = 0
    /\ UNCHANGED <<stream_output_mode, messages, educational_content,
                   last_code_blocks, stop_spinner, spinner, sent>>
    /\ UNCHANGED leaked
    /\ turnFrame

\* ask / ask_stream: self._add_messages_to_context(educational_content, user_input)
AddMessages ==
    /\ tpc = "add"
    /\ messages' = AddMessagesToContext(messages, educational_content, user_input)
    /\ sent' = messages'
    /\ tpc' = "start_spinner"
    /\ UNCHANGED <<stream_output_mode, educational_content, last_code_blocks,
                   user_input, stop_spinner, spinner, received, reply_parts,
                   first_chunk, reply, live, printed, ret, turns, requests>>
    /\ UNCHANGED leaked
    /\ turnFrame

\* stop_spinner = threading.Event(); spinner_thread = Thread(...); start()
StartSpinner ==
    /\ tpc = "start_spinner"
    /\ stop_spinner' = FALSE
    /\ spinner' = "running"
    /\ leaked' = IF IsAlive(spinner) THEN leaked + 1 ELSE leaked
    /\ tpc' = "request"
    /\ UNCHANGED <<stream_output_mode, messages, educational_content,
                   last_code_blocks, user_input, received, reply_parts,
                   first_chunk, reply, live, printed, ret, sent, turns,
                   requests>>
    /\ turnFrame

\* _spinner: the test of the while loop, "not stop_spinner.is_set()".
SpinnerPoll ==
    /\ spinner = "running"
    /\ spinner' = IF stop_spinner THEN "exited" ELSE "sleeping"
    /\ UNCHANGED <<stream_output_mode, messages, educational_content,
                   last_code_blocks, tpc, user_input, stop_spinner, received,
                   reply_parts, first_chunk, reply, live, printed, ret, sent,
                   turns, requests>>
    /\ UNCHANGED leaked
    /\ turnFrame

\* _spinner: time.sleep(SPINNER_SLEEP_INTERVAL) is over.
SpinnerWake ==
    /\ spinner = "sleeping"
    /\ spinner' = "running"
    /\ UNCHANGED <<stream_output_mode, messages, educational_content,
                   last_code_blocks, tpc, user_input, stop_spinner, received,
                   reply_parts, first_chunk, reply, live, printed, ret, sent,
                   turns, requests>>
    /\ UNCHANGED leaked
    /\ turnFrame

\* ask: response = self._make_api_request(); reply = ...message.content.
\* The call returns a reply, raises a transport error, or is interrupted.
ApiRequest ==
    /\ tpc = "request"
    /\ ~stream_output_mode
    /\ requests' = requests + 1
    /\ \/ /\ \E r \in Replies : reply' = r
          /\ tpc' = "stop_ok"
          /\ ret' = ret
       \/ /\ tpc' = "stop_exc"
          /\ UNCHANGED <<reply, ret>>
       \/ /\ ret' = [kind |-> "KeyboardInterrupt", val |-> <<>>]
          /\ tpc' = "caller"
          /\ reply' = reply
    /\ UNCHANGED <<stream_output_mode, messages, educational_content,
                   last_code_blocks, user_input, stop_spinner, spinner,
                   received, reply_parts, first_chunk, live, printed, sent,
                   turns>>
    /\ UNCHANGED leaked
    /\ turnFrame

\* ask_stream: stream = self._make_streaming_api_request()
StreamRequest ==
    /\ tpc = "request"
    /\ stream_output_mode
    /\ requests' = requests + 1
    /\ \/ /\ tpc' = "first_chunk"
          /\ ret' = ret
       \/ /\ tpc' = "stop_exc"
          /\ ret' = ret
       \/ /\ ret' = [kind |-> "KeyboardInterrupt", val |-> <<>>]
          /\ tpc' = "caller"
    /\ UNCHANGED <<stream_output_mode, messages, educational_content,
                   last_code_blocks, user_input, stop_spinner, spinner,
                   received, reply_parts, first_chunk, reply, live, printed,
                   sent, turns>>
    /\ UNCHANGED leaked
    /\ turnFrame

\* _get_first_content_chunk: one pass of "for chunk in stream".  The
\* stream delivers a chunk, ends, raises, or the wait is interrupted.
GetFirstChunk ==
    /\ tpc = "first_chunk"
    /\ \/ /\ Len(received) < MaxChunks
          /\ \E f \in Frags(Len(received) + 1) :
                /\ received' = Append(received, f)
                /\ IF HasContent(f)
                   THEN /\ first_chunk' = f
                        /\ reply_parts' = Append(reply_parts, f)
                        /\ tpc' = "stop_ok"
                   ELSE /\ UNCHANGED <<first_chunk, reply_parts>>
                        /\ tpc' = "first_chunk"
          /\ ret' = ret
       \/ /\ tpc' = "stop_ok"
          /\ UNCHANGED <<received, first_chunk, reply_parts, ret>>
       \/ /\ tpc' = "stop_exc"
          /\ UNCHANGED <<received, first_chunk, reply_parts, ret>>
       \/ /\ ret' = [kind |-> "KeyboardInterrupt", val |-> <<>>]
          /\ tpc' = "caller"
          /\ UNCHANGED <<received, first_chunk, reply_parts>>
    /\ UNCHANGED <<stream_output_mode, messages, educational_content,
                   last_code_blocks, user_input, stop_spinner, spinner,
                   reply, live, printed, sent, turns, requests>>
    /\ UNCHANGED leaked
    /\ turnFrame

\* stop_spinner.set(), on the way on ("stop_ok") and in the except clause
\* ("stop_exc").
StopSpinner ==
    /\ tpc \in {"stop_ok", "stop_exc"}
    /\ stop_spinner' = TRUE
    /\ tpc' = IF tpc = "stop_ok" THEN "join_ok" ELSE "join_exc"
    /\ UNCHANGED <<stream_output_mode, messages, educational_content,
                   last_code_blocks, user_input, spinner, received,
                   reply_parts, first_chunk, reply, live, printed, ret, sent,
                   turns, requests>>
    /\ UNCHANGED leaked
    /\ turnFrame

\* spinner_thread.join(); then ask appends, ask_stream renders the first
\* chunk or (with none) appends, the except clause re-raises.
JoinSpinner ==
    /\ tpc \in {"join_ok", "join_exc"}
    /\ JoinReturns(spinner)
    /\ tpc' = IF tpc = "join_exc" THEN "raise"
              ELSE IF ~stream_output_mode THEN "ask_append"
              ELSE IF first_chunk # <<>> THEN "live_first"
              ELSE "stream_append"
    /\ UNCHANGED <<stream_output_mode, messages, educational_content,
                   last_code_blocks, user_input, stop_spinner, spinner,
                   received, reply_parts, first_chunk, reply, live, printed,
                   ret, sent, turns, requests>>
    /\ UNCHANGED leaked
    /\ turnFrame

\* ask: self.messages.append(assistant reply); return reply
AskAppend ==
    /\ tpc = "ask_append"
    /\ messages' = AppendAssistant(messages, reply)
    /\ ret' = [kind |-> "return", val |-> reply]
    /\ tpc' = "caller"
    /\ UNCHANGED <<stream_output_mode, educational_content, last_code_blocks,
                   user_input, stop_spinner, spinner, received, reply_parts,
                   first_chunk, reply, live, printed, sent, turns, requests>>
    /\ UNCHANGED leaked
    /\ turnFrame

\* _process_streaming_response: the live region is opened and the first
\* chunk rendered.
LiveFirst ==
    /\ tpc = "live_first"
    /\ live' = Append(live, first_chunk)
    /\ tpc' = "streaming"
    /\ UNCHANGED <<stream_output_mode, messages, educational_content,
                   last_code_blocks, user_input, stop_spinner, spinner,
                   received, reply_parts, first_chunk, reply, printed, ret,
                   sent, turns, requests>>
    /\ UNCHANGED leaked
    /\ turnFrame

\* _process_streaming_response: one pass of "for chunk in stream".
StreamLoop ==
    /\ tpc = "streaming"
    /\ \/ /\ Len(received) < MaxChunks
          /\ \E f \in Frags(Len(received) + 1) :
                /\ received' = Append(received, f)
                /\ IF HasContent(f)
                   THEN /\ reply_parts' = Append(reply_parts, f)
                        /\ live' = Append(live, LiveRenderable(reply_parts', f))
                   ELSE UNCHANGED <<reply_parts, live>>
          /\ tpc' = "streaming"
          /\ ret' = ret
       \/ /\ tpc' = "stream_append"
          /\ UNCHANGED <<received, reply_parts, live, ret>>
       \/ /\ tpc' = "stop_exc"
          /\ UNCHANGED <<received, reply_parts, live, ret>>
       \/ /\ ret' = [kind |-> "KeyboardInterrupt", val |-> <<>>]
          /\ tpc' = "caller"
          /\ UNCHANGED <<received, reply_parts, live>>
    /\ UNCHANGED <<stream_output_mode, messages, educational_content,
                   last_code_blocks, user_input, stop_spinner, spinner,
                   first_chunk, reply, printed, sent, turns, requests>>
    /\ UNCHANGED leaked
    /\ turnFrame

\* ask_stream: reply = "".join(reply_parts); append it; return it.
StreamAppend ==
    /\ tpc = "stream_append"
    /\ reply' = Join(reply_parts)
    /\ messages' = AppendAssistant(messages, reply')
    /\ ret' = [kind |-> "return", val |-> reply']
    /\ tpc' = "caller"
    /\ UNCHANGED <<stream_output_mode, educational_content, last_code_blocks,
                   user_input, stop_spinner, spinner, received, reply_parts,
                   first_chunk, live, printed, sent, turns, requests>>
    /\ UNCHANGED leaked
    /\ turnFrame

\* The except clause after its join, in a turn that streams, with the
\* transcript given the partial text (what the code does not do).
ExceptRaise_CommitPartial ==
    /\ tpc = "raise"
    /\ ret' = [kind |-> "Exception", val |-> <<>>]
    /\ tpc' = "caller"
    /\ messages' = IF stream_output_mode
                   THEN AppendAssistant(messages, Join(reply_parts))
                   ELSE messages
    /\ UNCHANGED <<stream_output_mode, educational_content, last_code_blocks,
                   user_input, stop_spinner, spinner, received, reply_parts,
                   first_chunk, reply, live, printed, sent, turns, requests>>
    /\ UNCHANGED leaked
    /\ turnFrame

\* The except clause of ask / ask_stream after its join: raise.
ExceptRaise ==
    /\ tpc = "raise"
    /\ ret' = [kind |-> "Exception", val |-> <<>>]
    /\ tpc' = "caller"
    /\ UNCHANGED <<stream_output_mode, messages, educational_content,
                   last_code_blocks, user_input, stop_spinner, spinner,
                   received, reply_parts, first_chunk, reply, live, printed,
                   sent, turns, requests>>
    /\ UNCHANGED leaked
    /\ turnFrame

\* _process_user_input has the reply (and prints it when it was not
\* streamed); the dialog clears the hints and replaces the remembered
\* blocks if the reply is not empty, and prints an empty line.
ReplyReturned ==
    /\ tpc = "caller"
    /\ ret.kind = "return"
    /\ printed' = (IF stream_output_mode THEN printed
                   ELSE Append(printed, Printed("markdown", ret.val)))
                  \o << Printed("blank", <<>>) >>
    /\ IF ret.val # <<>>
       THEN /\ educational_content' = <<>>
            /\ last_code_blocks' = ExtractCodeBlocks(ret.val)
       ELSE UNCHANGED <<educational_content, last_code_blocks>>
    /\ tpc' = "prompt"
    /\ UNCHANGED <<stream_output_mode, messages, user_input, stop_spinner,
                   spinner, received, reply_parts, first_chunk, reply, live,
                   ret, sent, turns, requests>>
    /\ UNCHANGED leaked
    /\ turnFrame

\* _process_user_input catches the Exception, prints connection_error(e)
\* and returns None; the dialog prints an empty line.
ErrorCaught ==
    /\ tpc = "caller"
    /\ ret.kind = "Exception"
    /\ printed' = (printed \o ConnectionErrorReport) \o << Printed("blank", <<>>) >>
    /\ tpc' = "prompt"
    /\ UNCHANGED <<stream_output_mode, messages, educational_content,
                   last_code_blocks, user_input, stop_spinner, spinner,
                   received, reply_parts, first_chunk, reply, live, ret,
                   sent, turns, requests>>
    /\ UNCHANGED leaked
    /\ turnFrame

\* A KeyboardInterrupt passes _process_user_input and reaches _dialog_loop,
\* which breaks.
InterruptBreaks ==
    /\ tpc = "caller"
    /\ ret.kind = "KeyboardInterrupt"
    /\ tpc' = "exited"
    /\ UNCHANGED <<stream_output_mode, messages, educational_content,
                   last_code_blocks, user_input, stop_spinner, spinner,
                   received, reply_parts, first_chunk, reply, live, printed,
                   ret, sent, turns, requests>>
    /\ UNCHANGED leaked
    /\ turnFrame

\* Application.run after the dialog has ended: "finally: print()".
AppExit ==
    /\ tpc = "exited"
    /\ printed' = Append(printed, Printed("blank", <<>>))
    /\ tpc' = "done"
    /\ UNCHANGED <<stream_output_mode, messages, educational_content,
                   last_code_blocks, user_input, stop_spinner, spinner,
                   received, reply_parts, first_chunk, reply, live, ret, sent,
                   turns, requests, leaked>>
    /\ turnFrame

\* A caller of the client other than the dialog: it calls ask or ask_stream
\* on the same client again, after a call that returned or failed, or after
\* handling the KeyboardInterrupt of a call.
ClientCall ==
    /\ \/ tpc = "prompt"
       \/ tpc = "caller" /\ ret.kind = "KeyboardInterrupt"
    /\ turns < MaxTurns
    /\ stream_output_mode' \in BOOLEAN
    /\ \E q \in Questions : user_input' = q
    /\ turns' = turns + 1
    /\ tpc' = "add"
    /\ received' = <<>>
    /\ reply_parts' = <<>>
    /\ first_chunk' = <<>>
    /\ reply' = <<>>
    /\ live' = <<>>
    /\ printed' = <<>>
    /\ ret' = NoRet
    /\ requests' = 0
    /\ UNCHANGED <<messages, educational_content, last_code_blocks, stop_spinner,
                   spinner, sent, leaked>>
    /\ turnFrame

TurnNext ==
    \/ DialogQuestion
    \/ AddMessages
    \/ StartSpinner
    \/ SpinnerPoll
    \/ SpinnerWake
    \/ ApiRequest
    \/ StreamRequest
    \/ GetFirstChunk
    \/ StopSpinner
    \/ JoinSpinner
    \/ AskAppend
    \/ LiveFirst
    \/ StreamLoop
    \/ StreamAppend
    \/ ExceptRaise
    \/ ReplyReturned
    \/ ErrorCaught
    \/ InterruptBreaks
    \/ AppExit

ClientNext ==
    \/ TurnNext
    \/ ClientCall

(***************************************************************************)
(* Part 4.  is_retriable_error and _LazyOpenAIImports.is_instance.         *)
(***************************************************************************)

\* The keys of the dictionary get_exceptions builds.
ExceptionNames == {"RateLimitError", "APIError", "OpenAIError", "AuthenticationError",
                   "APIConnectionError", "PermissionDeniedError", "NotFoundError",
                   "BadRequestError"}

\* The classes of the openai package an error can be an instance of.
OpenAIClasses == ExceptionNames \cup {"APIStatusError", "APITimeoutError", "InternalServerError"}

\* The classes the argument is drawn from: those and one that is not of
\* the openai package.
ErrorClasses == OpenAIClasses \cup {"ValueError"}

\* The base class of each class, as the openai package declares them.
Base(c) ==
    CASE c = "OpenAIError" -> "Exception"
      [] c = "APIError" -> "OpenAIError"
      [] c = "APIConnectionError" -> "APIError"
      [] c = "APITimeoutError" -> "APIConnectionError"
      [] c = "APIStatusError" -> "APIError"
      [] c \in {"BadRequestError", "AuthenticationError", "PermissionDeniedError",
                "NotFoundError", "RateLimitError", "InternalServerError"} -> "APIStatusError"
      [] OTHER -> "Exception"

\* isinstance(exception, exception_type) for an exception of class c.
RECURSIVE IsInstanceOf(_, _)
IsInstanceOf(c, name) ==
    IF c = name THEN TRUE
    ELSE IF c = "Exception" THEN FALSE
    ELSE IsInstanceOf(Base(c), name)

\* get_exceptions: whether the dictionary is there after the call, which
\* imports on the first call only.
LoadedAfterGet(loaded, attempted) ==
    loaded \/ (~attempted /\ openai_importable)

\* _LazyOpenAIImports.is_instance: False when the dictionary is not
\* available (ErrorMessageError) or has no such key.
is_instance(c, exception_name, loaded, attempted) ==
    /\ LoadedAfterGet(loaded, attempted)
    /\ exception_name \in ExceptionNames
    /\ IsInstanceOf(c, exception_name)

\* The tests of is_retriable_error in their order, each with what the
\* function returns when the test succeeds.
RetriableChecks_GenericFirst ==
    << <<"APIError", "True">>,
       <<"APIConnectionError", "True">>,
       <<"RateLimitError", "True">>,
       <<"AuthenticationError", "False">>,
       <<"PermissionDeniedError", "False">>,
       <<"BadRequestError", "False">>,
       <<"NotFoundError", "False">> >>

RetriableChecks ==
    << <<"APIConnectionError", "True">>,
       <<"RateLimitError", "True">>,
       <<"AuthenticationError", "False">>,
       <<"PermissionDeniedError", "False">>,
       <<"BadRequestError", "False">>,
       <<"NotFoundError", "False">>,
       <<"APIError", "True">> >>

\* The errors that can exist: an instance of a class of the openai package
\* exists only where the package can be imported.
Raisable == IF openai_importable THEN ErrorClasses ELSE ErrorClasses \ OpenAIClasses

RetryIdle ==
    /\ exceptions_loaded = FALSE
    /\ import_attempted = FALSE
    /\ error = "none"
    /\ rcheck = 0
    /\ retriable = "none"
    /\ rpc = "idle"
    /\ rcalls = 0

RetryOff ==
    /\ openai_importable = TRUE
    /\ RetryIdle

retryFrame == UNCHANGED <<decVars, execVars, turnVars, preVars, cfgVars>>

\* is_retriable_error(error) is called.
RetryCall ==
    /\ rpc = "idle"
    /\ rcalls < MaxCalls
    /\ \E c \in Raisable : error' = c
    /\ rcheck' = 1
    /\ retriable' = "none"
    /\ rpc' = "checking"
    /\ rcalls' = rcalls + 1
    /\ UNCHANGED <<openai_importable, exceptions_loaded, import_attempted>>
    /\ retryFrame

\* One "if _openai_imports.is_instance(error, name): return ..." of
\* is_retriable_error; after the last one, "return False".
RetryCheck ==
    /\ rpc = "checking"
    /\ exceptions_loaded' = LoadedAfterGet(exceptions_loaded, import_attempted)
    /\ import_attempted' = (import_attempted \/ ~exceptions_loaded)
    /\ IF is_instance(error, RetriableChecks[rcheck][1], exceptions_loaded, import_attempted)
       THEN /\ retriable' = RetriableChecks[rcheck][2]
            /\ rpc' = "done"
            /\ rcheck' = rcheck
       ELSE IF rcheck = Len(RetriableChecks)
       THEN /\ retriable' = "False"
            /\ rpc' = "done"
            /\ rcheck' = rcheck
       ELSE /\ rcheck' = rcheck + 1
            /\ UNCHANGED <<retriable, rpc>>
    /\ UNCHANGED <<openai_importable, error, rcalls>>
    /\ retryFrame

\* The caller has the result.
RetryReturn ==
    /\ rpc = "done"
    /\ rpc' = "idle"
    /\ rcheck' = 0
    /\ UNCHANGED <<openai_importable, exceptions_loaded, import_attempted, error,
                   retriable, rcalls>>
    /\ retryFrame

RetryNext ==
    \/ RetryCall
    \/ RetryCheck
    \/ RetryReturn

(***************************************************************************)
(* Part 5.  WindowsCommandExecutor._preprocess_windows_code, a pure        *)
(* function on the text of a block (a sequence of code points).            *)
(***************************************************************************)

\* str.replace(old, new): every occurrence of old, found from the left and
\* not overlapping, becomes new.
RECURSIVE StrReplace(_, _, _)
StrReplace(text, old, new) ==
    IF Len(text) < Len(old) THEN text
    ELSE IF SubSeq(text, 1, Len(old)) = old
         THEN new \o StrReplace(SubSeq(text, Len(old) + 1, Len(text)), old, new)
         ELSE <<Head(text)>> \o StrReplace(Tail(text), old, new)

\* '@echo off', 'pause' and 'rem pause'
AtEchoOff == <<64, 101, 99, 104, 111, 32, 111, 102, 102>>

PauseWord == <<112, 97, 117, 115, 101>>

RemPause == <<114, 101, 109, 32>> \o PauseWord

\* code_block.replace('@echo off', '').replace('pause', 'rem pause')
_preprocess_windows_code(text) ==
    StrReplace(StrReplace(text, AtEchoOff, <<>>), PauseWord, RemPause)

\* The pieces the texts of a block are put together from: '@echo off',
\* 'echo off', '@ECHO OFF', 'pause', 'PAUSE', 'echo ', 'dir' and a newline.
CodePieces ==
    { AtEchoOff,
      <<101, 99, 104, 111, 32, 111, 102, 102>>,
      <<64, 69, 67, 72, 79, 32, 79, 70, 70>>,
      PauseWord,
      <<80, 65, 85, 83, 69>>,
      <<101, 99, 104, 111, 32>>,
      <<100, 105, 114>>,
      <<10>> }

RECURSIVE Concat(_)
Concat(pieces) == IF pieces = <<>> THEN <<>> ELSE Head(pieces) \o Concat(Tail(pieces))

CodeTexts == {Concat(ps) : ps \in SeqsUpTo(CodePieces, MaxPieces)}

PreOff ==
    /\ code_block = <<>>
    /\ preprocessed_code = <<>>
    /\ ppc = "off"

preFrame == UNCHANGED <<decVars, execVars, turnVars, retryVars, cfgVars>>

\* One call of _preprocess_windows_code on the chosen text.
PreprocessCall ==
    /\ ppc = "args"
    /\ preprocessed_code' = _preprocess_windows_code(code_block)
    /\ ppc' = "done"
    /\ UNCHANGED code_block
    /\ preFrame

(***************************************************************************)
(* Part 6.  ConfigManager.set and _save_config.                            *)
(***************************************************************************)
\* A Python dict is a function on its keys; {} is the function on no key.
EmptyDict == [k \in {} |-> 0]

\* d[k] = v
DictSet(d, k, v) == [x \in (DOMAIN d) \cup {k} |-> IF x = k THEN v ELSE d[x]]

\* A value: its Python type and, for a number, the number.
IntValue(n) == [type |-> "int", num |-> n]

StrValue == [type |-> "str", num |-> 0]

\* What set is called with: "global" and "logging", a blank section name,
\* the keys "temperature" and "console_level", an empty key, and as values
\* the numbers -1, 0, 2, 3 and a string.
SectionArgs == {"global", "logging", " "}

KeyArgs == {"temperature", "console_level", ""}

ValueArgs == {IntValue(n) : n \in {-1, 0, 2, 3}} \cup {StrValue}

\* The configurations _load_config can have produced: {} (no file, an empty
\* file or one that could not be read), one with a global section, one with
\* both sections.
LoadedConfigs ==
    { EmptyDict,
      [s \in {"global"} |-> [k \in {"temperature"} |-> IntValue(1)]],
      [s \in {"global", "logging"} |->
          IF s = "global" THEN [k \in {"temperature"} |-> IntValue(1)]
          ELSE [k \in {"console_level"} |-> StrValue]] }

\* A file on disk: absent, holding a configuration, or cut short by a
\* write that failed.
NoFile == [state |-> "absent", data |-> EmptyDict]

FileOf(cfg) == [state |-> "written", data |-> cfg]

TruncatedFile == [state |-> "truncated", data |-> EmptyDict]

\* "not isinstance(x, str) or not x.strip()" for a string argument.
IsBlankName(x) == x \in {"", " "}

\* "not isinstance(value, (int, float)) or not (0 <= value <= 2)"
IsBadTemperature(value) ==
    value.type \notin {"int", "float"} \/ ~(0 <= value.num /\ value.num <= 2)

\* "if section not in self._config: self._config[section] = {}"
WithSection(cfg, section) ==
    IF section \in DOMAIN cfg THEN cfg ELSE DictSet(cfg, section, EmptyDict)

\* self._config[section][key] = value
StoreValue(cfg, section, key, value) ==
    DictSet(cfg, section, DictSet(cfg[section], key, value))

CfgOff ==
    /\ config = EmptyDict
    /\ config_file = NoFile
    /\ backup_file = NoFile
    /\ set_args = <<>>
    /\ config_before = EmptyDict
    /\ cpc = "off"
    /\ set_out = "none"

cfgFrame == UNCHANGED <<decVars, execVars, turnVars, retryVars, preVars>>

\* ConfigManager.set up to its call of _save_config: the checks of the
\* names, the creation of a missing section, the check of a temperature,
\* the store.
ConfigSet ==
    /\ cpc = "args"
    /\ LET section == set_args[1]
           key == set_args[2]
           value == set_args[3]
       IN  IF IsBlankName(section) \/ IsBlankName(key)
           THEN /\ config' = config
                /\ set_out' = "ConfigError"
                /\ cpc' = "done"
           ELSE IF section = "global" /\ key = "temperature" /\ IsBadTemperature(value)
           THEN /\ config' = WithSection(config, section)
                /\ set_out' = "ConfigError"
                /\ cpc' = "done"
           ELSE /\ config' = StoreValue(WithSection(config, section), section, key, value)
                /\ set_out' = set_out
                /\ cpc' = "save"
    /\ UNCHANGED <<config_file, backup_file, set_args, config_before>>
    /\ cfgFrame

\* _save_config: the copy to config.yaml.backup when config.yaml exists
\* (a failure of the copy is only printed), then the write of the whole
\* configuration; when the write fails the backup, if there is one, is
\* copied back and ConfigError is raised.
SaveConfig ==
    /\ cpc = "save"
    /\ \E copied \in BOOLEAN :
          /\ backup_file' = IF config_file.state # "absent" /\ copied
                            THEN config_file ELSE backup_file
          /\ \/ /\ config_file' = FileOf(config)
                /\ set_out' = "returned"
             \/ /\ config_file' = IF backup_file'.state # "absent"
                                  THEN backup_file' ELSE TruncatedFile
                /\ set_out' = "ConfigError"
    /\ cpc' = "done"
    /\ UNCHANGED <<config, set_args, config_before>>
    /\ cfgFrame

ConfigNext ==
    \/ ConfigSet
    \/ SaveConfig

(***************************************************************************)
(* Part 7.  The dialog loop with both kinds of input: a question goes to   *)
(* the client (Part 3), digits go to run_code_block (Part 2) with the      *)
(* dialog's own list last_code_blocks.                                     *)
(***************************************************************************)

\* The list object after run_code_block has used it: the callee reads
\* len(code_blocks) and code_blocks[idx - 1] and writes nothing to it.
CodeBlocksAfterRun_Consumed(blocks) == <<>>

CodeBlocksAfterRun(blocks) == blocks

\* _dialog_loop, an input of digits only (lines 462-464), into
\* QueryExecutor._execute_code_block(last_code_blocks, block_index) up to
\* its range check (lines 412-419); run_code_block gets the dialog's list.
DialogDigits ==
    /\ tpc = "prompt"
    /\ xpc = "idle"
    /\ \E block_index \in DialogIdxRange :
          /\ entry' = "dialog"
          /\ req_idx' = block_index
          /\ code_blocks' = last_code_blocks
          /\ IF 1 <= block_index /\ block_index <= Len(last_code_blocks)
             THEN /\ xpc' = "run_code_block"
                  /\ console' = console
             ELSE /\ xpc' = "dialog_return"
                  /\ console' = Append(console, NotFoundMessage(block_index))
    /\ UNCHANGED <<system, launches, launched_code, results, child, result, pending_exc,
                   temp_path, temp_file, unlinks, cleanup_warned, wexec, xout>>
    /\ UNCHANGED <<stdout_lines, stderr_lines, raised>>
    /\ UNCHANGED <<out_pipe, err_pipe, terminal>>
    /\ UNCHANGED <<decVars, turnVars, retryVars, preVars, cfgVars>>

\* _dialog_loop after the digits were handled: "continue" to the next
\* prompt with the list as the callee left it, or, the execution having
\* been interrupted, "break".
DialogLoopContinue ==
    /\ xpc = "finished"
    /\ tpc = "prompt"
    /\ \/ /\ xout = "returned"
          /\ last_code_blocks' = CodeBlocksAfterRun(code_blocks)
          /\ tpc' = tpc
       \/ /\ xout = "KeyboardInterrupt"
          /\ last_code_blocks' = last_code_blocks
          /\ tpc' = "exited"
    /\ entry' = "none"
    /\ req_idx' = 0
    /\ xpc' = "idle"
    /\ console' = <<>>
    /\ launches' = 0
    /\ launched_code' = 0
    /\ results' = 0
    /\ child' = NoChild
    /\ result' = NoCompleted
    /\ pending_exc' = "none"
    /\ temp_path' = "none"
    /\ temp_file' = "absent"
    /\ unlinks' = 0
    /\ cleanup_warned' = FALSE
    /\ wexec' = "none"
    /\ xout' = "none"
    /\ stdout_lines' = <<>>
    /\ stderr_lines' = <<>>
    /\ raised' = "none"
    /\ out_pipe' = <<>>
    /\ err_pipe' = <<>>
    /\ terminal' = <<>>
    /\ UNCHANGED <<system, code_blocks>>
    /\ UNCHANGED <<stream_output_mode, messages, educational_content, user_input,
                   stop_spinner, spinner, received, reply_parts, first_chunk, reply,
                   live, printed, ret, sent, turns, requests, leaked>>
    /\ UNCHANGED <<decVars, retryVars, preVars, cfgVars>>

DialogNext ==
    \/ TurnNext
    \/ DialogDigits
    \/ RunCodeBlock
    \/ ExecuteCodeBlock
    \/ WinCreateTemp
    \/ Popen
    \/ ChildWrite
    \/ ChildExit
    \/ ReadStdout
    \/ ReadStderr
    \/ Wait
    \/ MakeResult
    \/ WinCleanup
    \/ Propagate
    \/ DisplayResult
    \/ RunCodeBlockExit
    \/ DialogReturn
    \/ DialogLoopContinue

(***************************************************************************)
(* The specifications.                                                     *)
(***************************************************************************)
DecodeInit ==
    /\ line_bytes \in SeqsUpTo(ByteVals, MaxLineLen)
    /\ encodings \in SeqsUpTo(EncodingNames, MaxCands) \cup {UNIX_ENCODINGS, WINDOWS_ENCODINGS}
    /\ decoded = NoResult
    /\ dpc = "args"
    /\ ExecOff
    /\ TurnOff
    /\ RetryOff
    /\ PreOff
    /\ CfgOff

DecodeNext == DecodeCall

SpecDecode == DecodeInit /\ [][DecodeNext]_vars

ExecSpecInit ==
    /\ system \in {"windows", "linux"}
    /\ code_blocks \in {Blocks(n) : n \in 0..MaxBlocks}
    /\ ExecIdle
    /\ DecodeIdle
    /\ TurnOff
    /\ RetryOff
    /\ PreOff
    /\ CfgOff

SpecExec == ExecSpecInit /\ [][ExecNext]_vars

TurnSpecInit ==
    /\ stream_output_mode \in BOOLEAN
    /\ TurnIdle
    /\ DecodeIdle
    /\ ExecOff
    /\ RetryOff
    /\ PreOff
    /\ CfgOff

SpecTurn == TurnSpecInit /\ [][TurnNext]_vars

SpecClient == TurnSpecInit /\ [][ClientNext]_vars

RetrySpecInit ==
    /\ openai_importable \in BOOLEAN
    /\ RetryIdle
    /\ DecodeIdle
    /\ ExecOff
    /\ TurnOff
    /\ PreOff
    /\ CfgOff

SpecRetry == RetrySpecInit /\ [][RetryNext]_vars

DialogSpecInit ==
    /\ stream_output_mode \in BOOLEAN
    /\ system \in {"windows", "linux"}
    /\ code_blocks = <<>>
    /\ TurnIdle
    /\ ExecIdle
    /\ DecodeIdle
    /\ RetryOff
    /\ PreOff
    /\ CfgOff

SpecDialog == DialogSpecInit /\ [][DialogNext]_vars

ConfigSpecInit ==
    /\ config \in LoadedConfigs
    /\ config_file \in {NoFile, FileOf(config)}
    /\ backup_file = NoFile
    /\ set_args \in SectionArgs \X KeyArgs \X ValueArgs
    /\ config_before = config
    /\ cpc = "args"
    /\ set_out = "none"
    /\ DecodeIdle
    /\ ExecOff
    /\ TurnOff
    /\ RetryOff
    /\ PreOff

SpecConfig == ConfigSpecInit /\ [][ConfigNext]_vars

PreprocessInit ==
    /\ code_block \in CodeTexts
    /\ preprocessed_code = <<>>
    /\ ppc = "args"
    /\ DecodeIdle
    /\ ExecOff
    /\ TurnOff
    /\ RetryOff
    /\ CfgOff

PreprocessNext == PreprocessCall

SpecPreprocess == PreprocessInit /\ [][PreprocessNext]_vars

(***************************************************************************)
(* The claims.                                                             *)
(***************************************************************************)

\* C1: for every byte sequence and every candidate list, including the empty
\* list and names that are not known encodings, _decode_output_line returns a
\* text value and raises no exception.
DecodeNeverRaises == dpc = "done" => decoded.kind = "ok"

OutOfRange == req_idx < 1 \/ req_idx > Len(code_blocks)

\* C2: a request to run block i with i < 1 or i > len(L), through
\* run_code_block or through the dialog's numeric input, launches no child
\* process and constructs no execution result.
OutOfRangeLaunchesNothing ==
    (entry # "none" /\ OutOfRange) =>
        (launches = 0 /\ results = 0 /\ child.state = "none" /\ ~result.made)

OutOfRangeWitness ==
    /\ xpc = "finished"
    /\ OutOfRange
    /\ entry = "direct"
    /\ req_idx = 0
    /\ Len(code_blocks) = MaxBlocks

\* C9 as stated: every call of the Windows execute that created a temporary
\* batch file ends with the file deleted.
WinTempFileAlwaysDeleted ==
    (wexec \in {"returned", "raised"} /\ temp_file # "absent") => temp_file = "deleted"

\* C9 as amended: every call of the Windows execute whose batch file was
\* created and written ends with exactly one os.unlink of it, after exit
\* code zero, a non-zero exit code or an exception alike; the file is then
\* deleted unless os.unlink failed, and that failure was logged.  A call
\* whose file could not be created or written ends without any os.unlink.
WinTempFileCleanupAttempted ==
    /\ (wexec \in {"returned", "raised"} /\ temp_path # "none") =>
          /\ unlinks = 1
          /\ temp_file = "deleted" \/ cleanup_warned
          /\ (temp_file = "deleted") # cleanup_warned
    /\ (wexec \in {"returned", "raised"} /\ temp_path = "none") =>
          /\ unlinks = 0
          /\ temp_file \in {"absent", "exists"}
          /\ launches = 0

WinCleanupAfterRaiseWitness ==
    /\ wexec = "raised"
    /\ temp_path # "none"
    /\ launches = 1
    /\ temp_file = "deleted"

\* C10 as stated: every out-of-range request, on every path, shows the
\* user a warning naming the valid range "1 to n".
OutOfRangeAlwaysNamesRange ==
    (xpc = "finished" /\ OutOfRange) =>
        \E k \in 1..Len(console) :
            /\ console[k].msg = "Block does not exist. Available blocks: lo to hi"
            /\ console[k].lo = 1
            /\ console[k].hi = Len(code_blocks)

\* C10 as amended: an out-of-range index passed to run_code_block shows
\* exactly the warning naming index i and the range "1 to n"; typed in the
\* dialog, it shows "Code block #i not found." and an empty line, without a
\* range, and run_code_block is not reached.
OutOfRangeMessages ==
    (xpc = "finished" /\ OutOfRange) =>
        /\ entry = "direct" =>
              console = << InvalidIndexWarning(req_idx, Len(code_blocks)) >>
        /\ entry = "direct" => (console[1].lo = 1 /\ console[1].hi = Len(code_blocks))
        /\ entry = "dialog" =>
              console = << NotFoundMessage(req_idx), Msg("", 0, 0, 0, 0) >>

FiveAgainstTwoWitness ==
    /\ xpc = "finished"
    /\ entry = "direct"
    /\ req_idx = 5
    /\ Len(code_blocks) = 2
    /\ console = << Msg("Block does not exist. Available blocks: lo to hi", 5, 1, 2, 0) >>

StreamReturned == stream_output_mode /\ tpc = "caller" /\ ret.kind = "return"

SomeContent == \E k \in 1..Len(received) : received[k] # <<>>

ConcatenationEverywhere ==
    /\ ret.val = Join(received)
    /\ live # <<>>
    /\ live[Len(live)] = Join(received)
    /\ messages[Len(messages)] = Message("assistant", Join(received))

\* C3 as stated: a streamed reply that ends normally after fragments
\* F1..Fn, n >= 1, is returned as F1+...+Fn, the last text rendered in the
\* live region is that concatenation, and the transcript's last message is
\* an assistant message holding it.
StreamedReplyIsConcatenation ==
    (StreamReturned /\ Len(received) >= 1) => ConcatenationEverywhere

\* C3 as amended: the same, for a stream at least one of whose fragments
\* is not empty.
StreamedContentIsConcatenation ==
    (StreamReturned /\ SomeContent) => ConcatenationEverywhere

StreamedThreeFragmentsWitness ==
    /\ StreamReturned
    /\ received = << <<1>>, <<>>, <<3>> >>
    /\ ret.val = <<1, 3>>
    /\ live = << <<1>>, <<1, 3>> >>

\* C4: a streamed reply that delivers no fragment, or only empty ones, and
\* ends normally renders nothing, and the transcript gains exactly one
\* assistant message, whose content is the empty string.
EmptyStreamAppendsEmptyReply ==
    (StreamReturned /\ ~SomeContent) =>
        /\ live = <<>>
        /\ ret.val = <<>>
        /\ messages = Append(sent, Message("assistant", <<>>))
        /\ sent[Len(sent)] = Message("user", user_input)

EmptyStreamWitness ==
    /\ StreamReturned
    /\ received = <<>>
    /\ Len(messages) = Len(sent) + 1

\* C5, the join: the stop flag is set when the foreground joins, and the
\* steps after the join (appending, rendering, re-raising) are taken with
\* the indicator thread terminated.
SpinnerJoinedBeforeProceeding ==
    /\ tpc \in {"join_ok", "join_exc"} => stop_spinner
    /\ tpc \in {"ask_append", "live_first", "streaming", "stream_append", "raise"} =>
          (stop_spinner /\ spinner = "exited")

\* C5, the poll: with the flag set, the thread's next poll ends its loop
\* (a sleep under way ends first, then the poll).
SpinnerExitsAtNextPoll ==
    stop_spinner =>
        /\ spinner = "running" => spinner' \in {"running", "exited"}
        /\ spinner = "sleeping" => spinner' \in {"sleeping", "running"}

\* C5: whenever ask or ask_stream stops the progress indicator, the stop
\* flag is set, the tick loop exits at its next poll of the flag, and the
\* stopping code goes on to its next step only after the indicator thread
\* has terminated.
ProgressStopContract ==
    []SpinnerJoinedBeforeProceeding /\ [][SpinnerExitsAtNextPoll]_vars

JoinedBeforeAppendWitness ==
    /\ tpc = "ask_append"
    /\ stop_spinner
    /\ spinner = "exited"

\* C6: when a transport error of ask or ask_stream reaches the caller, the
\* indicator has been stopped and joined, and the transcript ends with this
\* turn's hints and user message: no assistant message for the turn.
TransportErrorLeavesRetryReady ==
    (tpc = "caller" /\ ret.kind = "Exception") =>
        LET n == Len(messages)
            h == Len(educational_content)
        IN  /\ stop_spinner
            /\ spinner = "exited"
            /\ messages = sent
            /\ messages[n] = Message("user", user_input)
            /\ SubSeq(messages, n - h, n - 1) = educational_content
            /\ \A k \in 1..n : messages[k].role = "assistant" => k < n - h

TransportErrorWitness ==
    /\ tpc = "caller"
    /\ ret.kind = "Exception"
    /\ ~stream_output_mode
    /\ turns = 1
    /\ Len(messages) = 3

\* C7: a keyboard interrupt that arrives while ask or ask_stream waits on
\* the model, the indicator running, reaches the caller only after the
\* indicator has been stopped and its thread joined.
InterruptStopsSpinner ==
    (tpc = "caller" /\ ret.kind = "KeyboardInterrupt") =>
        (stop_spinner /\ spinner = "exited")

\* C8: a streamed reply that fails or is interrupted after k >= 1
\* fragments commits nothing: the transcript is what it was when the
\* turn's user message had been added, with no assistant message after it.
FailedStreamCommitsNothing ==
    (/\ stream_output_mode
     /\ tpc = "caller"
     /\ ret.kind \in {"Exception", "KeyboardInterrupt"}
     /\ Len(received) >= 1) =>
        /\ messages = sent
        /\ messages[Len(messages)] = Message("user", user_input)

FailedStreamWitness ==
    /\ stream_output_mode
    /\ tpc = "caller"
    /\ ret.kind = "Exception"
    /\ reply_parts = << <<1>>, <<2>> >>
    /\ live # <<>>

IsHint(m) == \E k \in 1..Len(HintMessages) : m = HintMessages[k]

\* C11: once a turn has produced a reply from the model (the transcript
\* holds an assistant message), no later turn inserts the hint messages into
\* the transcript: no hint message stands after an assistant message.
HintsNotInsertedAfterReply ==
    \A i, j \in 1..Len(messages) :
        (i < j /\ messages[i].role = "assistant") => ~IsHint(messages[j])

\* C12: after every turn that yields an assistant reply, the remembered
\* code-block list is exactly the blocks extracted from that reply, none if
\* it has none.
BlocksAreThoseOfLastReply ==
    (tpc = "prompt" /\ ret.kind = "return") =>
        last_code_blocks = ExtractCodeBlocks(ret.val)

RateLimitOrConnection(c) ==
    IsInstanceOf(c, "RateLimitError") \/ IsInstanceOf(c, "APIConnectionError")

AuthPermissionRequestOrNotFound(c) ==
    \/ IsInstanceOf(c, "AuthenticationError")
    \/ IsInstanceOf(c, "PermissionDeniedError")
    \/ IsInstanceOf(c, "BadRequestError")
    \/ IsInstanceOf(c, "NotFoundError")

\* C16: is_retriable_error returns True for every rate-limit and connection
\* failure and False for every authentication, permission-denied,
\* bad-request and not-found failure, all of which are instances of the
\* generic APIError as well.
RetriableClassification ==
    rpc = "done" =>
        /\ RateLimitOrConnection(error) => retriable = "True"
        /\ AuthPermissionRequestOrNotFound(error) => retriable = "False"

AuthErrorNotRetriableWitness ==
    /\ rpc = "done"
    /\ error = "AuthenticationError"
    /\ IsInstanceOf(error, "APIError")
    /\ retriable = "False"
    /\ rcalls = 2

ErrorReports ==
    {k \in 1..Len(console) : console[k].msg = "Script execution error"}

\* C13: for a valid index, an exception (an instance of Exception) raised
\* while the runner is selected or the block executed is caught inside
\* run_code_block: the call returns to its caller, and exactly one short
\* message, the last one printed by run_code_block, reports it.
ExceptionsCaughtInRunCodeBlock ==
    (xpc = "finished" /\ ~OutOfRange /\ raised \notin {"none", "KeyboardInterrupt"}) =>
        /\ xout = "returned"
        /\ pending_exc = "none"
        /\ Cardinality(ErrorReports) = 1
        /\ \A k \in 1..Len(console) : console[k].msg # "Error executing code block"
        /\ ~result.made

PrintFailureCaughtWitness ==
    /\ xpc = "finished"
    /\ entry = "direct"
    /\ req_idx = 1
    /\ raised = "UnicodeEncodeError"
    /\ launches = 1
    /\ xout = "returned"
    /\ console[Len(console)].msg = "Script execution error"

\* C14: on both variants, execute has a result only after the child has
\* terminated, and the result's exit code is the child's exit status.
ResultCarriesChildExitStatus ==
    result.made =>
        /\ child.state = "exited"
        /\ result.returncode = child.code

ExitCode127Witness ==
    /\ result.made
    /\ system = "linux"
    /\ child.code = 127
    /\ result.returncode = 127
    /\ xpc = "display_result"

NotFoundLaunched == child.state # "none" /\ ~child.found

\* C15 as stated: on both variants, a command that does not exist does not
\* make execute raise, and yields a result with a non-zero exit code and a
\* stderr text that is not empty.
NotFoundYieldsCodeAndStderr ==
    NotFoundLaunched =>
        /\ ~IsException(raised)
        /\ result.made => (result.returncode # 0 /\ result.stderr # <<>>)

\* C15 as amended: on both variants, a command the shell does not find does
\* not make execute raise and yields a result with a non-zero exit code; on
\* Windows the result's stderr holds what the shell wrote, on POSIX the
\* result's stderr is empty, stderr not being read there.
NotFoundYieldsCode ==
    NotFoundLaunched =>
        /\ ~IsException(raised)
        /\ result.made =>
              /\ result.returncode # 0
              /\ system = "windows" => (/\ result.stderr = KeptLines(DecodedLines(child.err, WINDOWS_ENCODINGS))
                                        /\ result.stderr # <<>>)
              /\ system = "linux" => result.stderr = <<>>

NotFoundOnWindowsWitness ==
    /\ NotFoundLaunched
    /\ system = "windows"
    /\ result.made
    /\ result.returncode = 1
    /\ result.stderr = << <<110, 111, 116, 32, 102, 111, 117, 110, 100>> >>
    /\ xpc = "finished"

AliveIndicatorThreads == leaked + (IF IsAlive(spinner) THEN 1 ELSE 0)

\* C17: at every moment of any sequence of turns on one client, successful,
\* failed or interrupted, at most one indicator thread is alive.
AtMostOneIndicatorThread == AliveIndicatorThreads <= 1

IsPrefix(s1, s2) == Len(s1) <= Len(s2) /\ SubSeq(s2, 1, Len(s1)) = s1

\* C18: after any sequence of ask and ask_stream calls, successful or
\* failed, the first message of the transcript is the system message given
\* at construction, and no step removes, reorders or alters a message that
\* is in the transcript: every step leaves it a prefix of what it becomes.
TranscriptAppendOnly ==
    /\ [](messages # <<>> /\ messages[1] = SystemMessage)
    /\ [][IsPrefix(messages, messages')]_vars

TwoTurnsTranscriptWitness ==
    /\ turns = 2
    /\ tpc = "caller"
    /\ ret.kind = "return"
    /\ stream_output_mode
    /\ Len(messages) = 6
    /\ messages[1] = SystemMessage
    /\ messages[2] = HintMessages[1]
    /\ messages[3] = Message("user", <<"q">>)
    /\ messages[4].role = "assistant"
    /\ messages[5] = Message("user", <<"q">>)
    /\ messages[6].role = "assistant"

\* The foreground writes of the claim: a redraw of the live region, the
\* print of a batched reply, the print of an error message.
ForegroundWrite ==
    \/ live' # live /\ live' # <<>>
    \/ \E k \in (Len(printed) + 1)..Len(printed') :
          printed'[k].kind \in {"markdown", "connection_error"}

\* C19: every foreground write of a turn, on its success path and on its
\* failure path, is made with the stop flag set and the indicator thread
\* terminated (joined).
WritesOnlyAfterJoin ==
    [][ForegroundWrite => (stop_spinner /\ spinner = "exited" /\ spinner' = "exited")]_vars

ErrorPrintedAfterLiveWitness ==
    /\ stream_output_mode
    /\ tpc = "prompt"
    /\ live # <<>>
    /\ printed # <<>>
    /\ printed[1].kind = "connection_error"
    /\ spinner = "exited"

\* C20, while awaiting the first content: the indicator has not been told
\* to stop and its thread is alive.
RunningWhileAwaiting ==
    (stream_output_mode /\ tpc = "first_chunk") => (~stop_spinner /\ IsAlive(spinner))

\* C20, the arrival of a fragment while awaiting: an empty one leaves the
\* foreground awaiting and the indicator untouched; the first one that is
\* not empty takes the foreground to the stop of the indicator, with nothing
\* rendered yet.
FirstContentStops ==
    (stream_output_mode /\ tpc = "first_chunk" /\ received' # received) =>
        IF received'[Len(received')] = <<>>
        THEN tpc' = "first_chunk" /\ UNCHANGED <<stop_spinner, spinner, live>>
        ELSE tpc' = "stop_ok" /\ live' = live /\ live = <<>>

\* C20, the rendering: whatever is in the live region was rendered with
\* the indicator stopped.
RenderedAfterStop == live # <<>> => (stop_spinner /\ spinner = "exited")

\* C20: in streaming mode the indicator stays running while only empty
\* fragments have arrived, and it is stopped on arrival of the first
\* fragment that is not empty, before that fragment is rendered.
IndicatorUntilFirstContent ==
    /\ []RunningWhileAwaiting
    /\ [][FirstContentStops]_vars
    /\ []RenderedAfterStop

EmptyThenContentWitness ==
    /\ stream_output_mode
    /\ tpc = "streaming"
    /\ received = << <<>>, <<2>> >>
    /\ live = << <<2>> >>
    /\ stop_spinner
    /\ spinner = "exited"

\* The stderr lines the runner has printed under its own label "Error: ".
RunnerTaggedLines ==
    {terminal[k].line : k \in {j \in 1..Len(terminal) : terminal[j].tagged}}

\* _display_execution_result has printed the marker ">>> Error:".
ErrorMarkerShown == \E k \in 1..Len(console) : console[k].msg = "Error"

\* The stderr lines printed under the marker.
LinesUnderMarker ==
    UNION {{console[k].text[i] : i \in 1..Len(console[k].text)} :
           k \in {j \in 1..Len(console) : console[j].msg = "Error"}}

ResultDisplayed == result.made /\ xpc \in {"rcb_exit", "dialog_return", "finished"}

\* C21: once the result of a block is displayed, the stderr text is under
\* the error marker exactly when it is not empty and has no line the runner
\* has already printed under its own error label, and no stderr line has
\* been shown under an error label twice.
StderrUnderErrorLabelOnce ==
    ResultDisplayed =>
        /\ ErrorMarkerShown <=>
              (/\ result.stderr # <<>>
               /\ \A i \in 1..Len(result.stderr) : result.stderr[i] \notin RunnerTaggedLines)
        /\ LinesUnderMarker \cap RunnerTaggedLines = {}

\* The lines of a batch text.
RECURSIVE SplitLines(_)
SplitLines(text) ==
    IF \A i \in 1..Len(text) : text[i] # 10 THEN <<text>>
    ELSE LET n == CHOOSE i \in 1..Len(text) : text[i] = 10 /\ \A j \in 1..(i - 1) : text[j] # 10
         IN  <<SubSeq(text, 1, n - 1)>> \o SplitLines(SubSeq(text, n + 1, Len(text)))

LowerText(text) == [i \in 1..Len(text) |-> IF text[i] \in 65..90 THEN text[i] + 32 ELSE text[i]]

\* A batch line as the interpreter takes it: leading blanks and '@' dropped,
\* trailing blanks dropped, letter case ignored.
RECURSIVE DropLeadingAt(_)
DropLeadingAt(line) ==
    IF line # <<>> /\ Head(line) \in {9, 32, 64} THEN DropLeadingAt(Tail(line)) ELSE line

BatchCommand(line) == LowerText(RStrip(DropLeadingAt(line)))

IsEchoOffDirective(line) == BatchCommand(line) = <<101, 99, 104, 111, 32, 111, 102, 102>>

\* The command of the line is pause, alone or with arguments.
IsPauseCall(line) ==
    LET c == BatchCommand(line)
    IN  /\ Len(c) >= 5
        /\ SubSeq(c, 1, 5) = PauseWord
        /\ Len(c) > 5 => c[6] \in {9, 32}

\* C22: for every command text, the rewritten text has no echo off
\* directive and no active pause call, in any spelling the batch
\* interpreter accepts, and every other line of the text is as it was.
PreprocessNeutralisesOnlyDirectives ==
    ppc = "done" =>
        LET inl == SplitLines(code_block)
            outl == SplitLines(preprocessed_code)
        IN  /\ \A k \in 1..Len(outl) : ~IsEchoOffDirective(outl[k]) /\ ~IsPauseCall(outl[k])
            /\ Len(outl) = Len(inl)
            /\ \A k \in 1..Len(inl) :
                  (~IsEchoOffDirective(inl[k]) /\ ~IsPauseCall(inl[k])) => outl[k] = inl[k]

\* The candidates, by position, under which the strict decoding succeeds.
StrictSuccesses(b, encs) == {i \in 1..Len(encs) : StrictDecode(b, encs[i]).kind = "ok"}

FirstStrictSuccess(b, encs) ==
    CHOOSE i \in StrictSuccesses(b, encs) : \A j \in StrictSuccesses(b, encs) : i <= j

\* C23: _decode_output_line returns the stripped strict decoding under the
\* first candidate, in list order, that decodes the bytes without error;
\* what it returns when no candidate does is the stripped lossy UTF-8
\* decoding.
ReturnsFirstStrictDecoding ==
    dpc = "done" =>
        /\ StrictSuccesses(line_bytes, encodings) # {} =>
              decoded = Ok(Strip(StrictDecode(line_bytes,
                           encodings[FirstStrictSuccess(line_bytes, encodings)]).val))
        /\ (StrictSuccesses(line_bytes, encodings) = {} /\ decoded.kind = "ok") =>
              decoded = Ok(Strip(Utf8Replace(line_bytes)))

\* The lines print() has written to stdout, in order.
PrintedStdout ==
    LET outs == SelectSeq(terminal, LAMBDA p : p.stream = "stdout")
    IN  [k \in 1..Len(outs) |-> outs[k].line]

\* The child's stdout lines, each decoded under the POSIX candidates (which
\* strips it), without those that come out empty.
PosixStdoutText(lines) ==
    SelectSeq([k \in 1..Len(lines) |-> _decode_output_line(lines[k], UNIX_ENCODINGS).val],
              LAMBDA l : l # <<>>)

\* C24: on POSIX the result's stdout is the child's stdout lines in the
\* order produced, decoded and stripped, the empty ones left out; and while
\* the runner is about to read the next line, every line kept so far has
\* been printed.
PosixStdoutInOrderPrintedLive ==
    system = "linux" =>
        /\ result.made => result.stdout = PosixStdoutText(child.out)
        /\ xpc = "read_stdout" =>
              /\ PrintedStdout = stdout_lines
              /\ stdout_lines = PosixStdoutText(SubSeq(child.out, 1, child.wout - Len(out_pipe)))

EchoHelloWitness ==
    /\ system = "linux"
    /\ result.made
    /\ child.out = <<HelloLine, BlankLine, AccentLine>>
    /\ result.returncode = 0
    /\ result.stdout = << <<104, 101, 108, 108, 111>>, <<233>> >>
    /\ PrintedStdout = result.stdout
    /\ xpc = "display_result"

\* C25, the stages of a non-streaming turn: the messages of the turn are in
\* the transcript before the indicator is started; the indicator runs,
\* not yet told to stop, while the one request is made and when it has
\* returned; the assistant message is appended with the indicator told to
\* stop and its thread joined; and the call returns with the transcript
\* one assistant message longer than it was sent.
AskStagesInOrder ==
    ~stream_output_mode =>
        /\ tpc = "start_spinner" => (messages = sent /\ requests = 0 /\ ~IsAlive(spinner))
        /\ tpc = "request" => (messages = sent /\ requests = 0 /\ IsAlive(spinner) /\ ~stop_spinner)
        /\ tpc = "stop_ok" => (messages = sent /\ requests = 1 /\ IsAlive(spinner) /\ ~stop_spinner)
        /\ tpc = "join_ok" => (messages = sent /\ stop_spinner)
        /\ tpc = "ask_append" => (messages = sent /\ stop_spinner /\ spinner = "exited")
        /\ (tpc = "caller" /\ ret.kind = "return") =>
              messages = Append(sent, Message("assistant", ret.val))

\* C25, the steps that write the transcript: the first appends the hints
\* and then the question, the last appends the reply, and no step between
\* them writes it.
AskTranscriptSteps ==
    ~stream_output_mode =>
        /\ (tpc = "add" /\ tpc' # "add") =>
              messages' = (messages \o educational_content) \o <<Message("user", user_input)>>
        /\ (tpc = "ask_append" /\ tpc' # "ask_append") =>
              messages' = messages \o <<Message("assistant", reply)>>
        /\ tpc \notin {"add", "ask_append"} => messages' = messages

\* C25: on a successful non-streaming turn the hints and then the question
\* are appended, the indicator is started, the model call returns, the
\* indicator is stopped and joined, and only then is the assistant message
\* appended; the transcript gains hints, question and reply, in that order.
SuccessfulAskOrder == []AskStagesInOrder /\ [][AskTranscriptSteps]_vars

SuccessfulAskWitness ==
    /\ ~stream_output_mode
    /\ tpc = "caller"
    /\ ret.kind = "return"
    /\ turns = 1
    /\ requests = 1
    /\ spinner = "exited"
    /\ messages = <<SystemMessage, HintMessages[1], Message("user", <<"q">>),
                    Message("assistant", ret.val)>>

\* The error reports printed in the turn.
ErrorReportsPrinted == Len(SelectSeq(printed, LAMBDA p : p.kind = "connection_error"))

TurnEnded == turns > 0 /\ tpc \in {"prompt", "exited", "done"}

\* C26: a turn issues one model request and no more; a turn that failed
\* has issued that one request, has reported the error once and has given
\* control back to the dialog, and a turn that succeeded has reported none.
OneRequestPerTurn ==
    /\ requests <= 1
    /\ (tpc = "caller" \/ TurnEnded) => requests = 1
    /\ (TurnEnded /\ ret.kind = "Exception") => ErrorReportsPrinted = 1
    /\ (TurnEnded /\ ret.kind = "return") => ErrorReportsPrinted = 0

FailedTurnReportedOnceWitness ==
    /\ tpc = "prompt"
    /\ turns = 1
    /\ ret.kind = "Exception"
    /\ requests = 1
    /\ ErrorReportsPrinted = 1

\* The positions of the transcript that hold a hint message.
HintPositions == {i \in 1..Len(messages) : IsHint(messages[i])}

\* C27: after any sequence of turns, failed turns that are asked again and
\* turns with an empty reply among them, the transcript holds the hint
\* messages at most once.
HintBlockAtMostOnce == Cardinality(HintPositions) <= Len(HintMessages)

\* The runner is in a call that returns only when the child acts: a read
\* of an empty pipe whose other end is open, or the wait for its exit.
RunnerWaitsForChild ==
    /\ child.state = "running"
    /\ \/ xpc = "read_stdout" /\ out_pipe = <<>>
       \/ xpc = "read_stderr" /\ err_pipe = <<>>
       \/ xpc = "wait"

\* The child has lines left to write and every pipe it has lines for is
\* full: it goes on only when the runner reads.
ChildWaitsForRunner ==
    /\ child.state = "running"
    /\ child.wout < Len(child.out) \/ child.werr < Len(child.err)
    /\ child.wout < Len(child.out) => ~PipeHasRoom(out_pipe)
    /\ child.werr < Len(child.err) => ~PipeHasRoom(err_pipe)

\* C28: for a child that ends once its output is consumed, whatever it
\* writes to stdout and stderr and in whatever order, execute returns: the
\* runner is never waiting for the child while the child is waiting for the
\* runner to empty a pipe.
RunnerNeverBlocksForever == ~(RunnerWaitsForChild /\ ChildWaitsForRunner)

\* A step of the handling of a digits-only input, from the input to the
\* next prompt.
DigitsStep == xpc # "idle" \/ xpc' # "idle"

\* C29: in the dialog loop, the handling of an input of digits issues no
\* model request and leaves the transcript, the pending hint block and the
\* remembered code-block list as they were, whether the index is in range
\* or not and whether the execution succeeds or fails.
DigitsLeaveDialogStateAlone ==
    [][DigitsStep =>
         /\ requests' = requests
         /\ messages' = messages
         /\ educational_content' = educational_content
         /\ last_code_blocks' = last_code_blocks]_vars

DigitsRunAfterReplyWitness ==
    /\ xpc = "finished"
    /\ xout = "returned"
    /\ entry = "dialog"
    /\ result.made
    /\ result.returncode = 1
    /\ turns = 1
    /\ last_code_blocks = <<1, 2>>
    /\ req_idx = 2
    /\ Len(messages) = 4

\* C30: ConfigManager.set either stores the value and saves it, or raises
\* ConfigError with the configuration in memory exactly as it was before
\* the call; a temperature outside 0..2 is rejected with no change to any
\* section.
SetStoresOrLeavesUnchanged ==
    cpc = "done" =>
        /\ \/ /\ set_out = "returned"
              /\ config[set_args[1]][set_args[2]] = set_args[3]
              /\ config_file = FileOf(config)
           \/ /\ set_out = "ConfigError"
              /\ config = config_before
        /\ (set_args[1] = "global" /\ set_args[2] = "temperature"
              /\ IsBadTemperature(set_args[3])) =>
                 (set_out = "ConfigError" /\ config = config_before)

=============================================================================
